---- MODULE Spec2Model ----
(***************************************************************************)
(* Model of the teqxt GPU text renderer: the key-invalidated resource      *)
(* cache (gfx/cached.rs), the typed GPU record layer (gfx/structs.rs) and  *)
(* Renderer::draw (gfx/renderer.rs).                                       *)
(*                                                                         *)
(* GPU objects are identified by the order in which the device created     *)
(* them (object 1 is the dummy texture of Gfx::new).  Buffer memory is     *)
(* modelled in 4-byte words (every field of every record is an f32 or a    *)
(* u32); an f32 value is a 24-bit significand with a binary exponent.     *)
(***************************************************************************)
EXTENDS Integers, Sequences, FiniteSets, TLC

\* ------------------------------------------------------------------ bounds
\* output_size ranges over (0..MaxWidth) x (0..MaxHeight)
MaxWidth == 2
MaxHeight == 1
\* params.glyphs has at most MaxCurves curves in all
MaxCurves == 2
\* draw is explored while the device has created fewer than MaxObjects objects
MaxObjects == 7
\* the stand-alone cache takes keys 0..MaxKey, at most MaxCalls calls, and
\* its callers keep at most MaxHolders handles
MaxKey == 2
MaxCalls == 4
MaxHolders == 2

VARIABLES
    first_pass_texture,         \* Renderer.first_pass_texture.cached
    output_pass_texture,        \* Renderer.output_pass_texture.cached
    bezier_instance_buffer,     \* Renderer.bezier_instance_buffer.inner.cached
    first_pass_uniform_buffer,  \* Renderer.first_pass_uniform_buffer.inner.cached
    output_pass_uniform_buffer, \* Renderer.output_pass_uniform_buffer.inner.cached
    pipelines,                  \* Renderer.pipelines: the descriptor each was built from
    gpu,                        \* descriptors of the objects the device created, by id
    mem,                        \* buffer id -> (word index -> word written there)
    tex,                        \* texture id -> the draws blended into it since its last clear
    acquire_size,               \* size of the latest draw that reached the texture caches
    last,                       \* the latest draw call: params, result, API calls, state before
    cached,                     \* a stand-alone Cached<usize, T>: its `cached` slot
    arcs,                       \* the Arc<T> heap of that cache: strong counts, destroyed objects
    handles,                    \* the Arc<T> handles its callers still hold
    calls,                      \* the get / get_at_least calls made on it so far
    get_call                    \* the get call now running on it, statement by statement

rvars == <<first_pass_texture, output_pass_texture, bezier_instance_buffer,
           first_pass_uniform_buffer, output_pass_uniform_buffer, pipelines,
           gpu, mem, tex, acquire_size, last>>

cvars == <<cached, arcs, handles, calls, get_call>>

\* --------------------------------------------------------- Option<T> values
None == {}
Some(x) == {x}
Unwrap(opt) == CHOOSE x \in opt : TRUE

\* ---------------------------------------------------------------- f32 values
\* An f32 is <<m, e>>, standing for m * 2^e, with a significand of exactly
\* 24 bits (2^23 <= |m| < 2^24), or <<0, 0>> for zero.  Every operation
\* rounds its exact result to 24 significant bits, to nearest and ties to
\* even, as IEEE-754 does.  The exponent range is not modelled: no magnitude
\* here comes near overflow or the subnormals, and no divisor is zero.
Abs(n) == IF n < 0 THEN -n ELSE n

\* m * 2^e for 0 < m < 2^24, with the significand shifted up to 24 bits.
RECURSIVE Full(_, _)
Full(m, e) == IF m >= 2 ^ 23 THEN <<m, e>> ELSE Full(2 * m, e - 1)

WithSign(s, x) == IF s < 0 THEN <<-x[1], x[2]>> ELSE x

\* `n as f32`, exact below 2^24.
F(n) == IF n = 0 THEN <<0, 0>> ELSE WithSign(n, Full(Abs(n), 0))

\* By how many bits n < 2^31 exceeds 24 bits.
Excess(n) ==
    IF n < 2 ^ 24 THEN 0
    ELSE IF n < 2 ^ 25 THEN 1
    ELSE IF n < 2 ^ 26 THEN 2
    ELSE IF n < 2 ^ 27 THEN 3
    ELSE IF n < 2 ^ 28 THEN 4
    ELSE IF n < 2 ^ 29 THEN 5
    ELSE IF n < 2 ^ 30 THEN 6
    ELSE 7

\* A significand that rounding carried up to 2^24.
Carry(q, e) == IF q = 2 ^ 24 THEN <<2 ^ 23, e + 1>> ELSE <<q, e>>

\* q * 2^e with the dropped bits r out of 2 * half: to nearest, ties to even.
RoundUp(q, r, half, e) ==
    Carry(IF r > half \/ (r = half /\ q % 2 = 1) THEN q + 1 ELSE q, e)

RoundBits(n, e, k) ==
    IF k = 0 THEN Full(n, e)
    ELSE RoundUp(n \div (2 ^ k), n % (2 ^ k), 2 ^ (k - 1), e + k)

\* n * 2^e for n >= 0, rounded to 24 significant bits.
Round(n, e) == IF n = 0 THEN <<0, 0>> ELSE RoundBits(n, e, Excess(n))

\* The rounded value n * 2^e, with the sign of s.
Signed(s, n, e) == WithSign(s, Round(n, e))

\* hi + lo, hi's exponent being the larger by d.  The operand of smaller
\* exponent is shifted under the other one; what is shifted out survives as
\* one sticky bit.
AddAligned(hi, lo, d, sh) ==
    IF d <= 5
    THEN Signed(hi[1] * (2 ^ d) + lo[1], Abs(hi[1] * (2 ^ d) + lo[1]), lo[2])
    ELSE Signed(hi[1],
                Abs(2 * (hi[1] * 32 + (lo[1] \div (2 ^ sh)))
                    + (IF lo[1] % (2 ^ sh) = 0 THEN 0 ELSE 1)),
                hi[2] - 6)

\* x + y.
FAdd(x, y) ==
    IF x[1] = 0 THEN y
    ELSE IF y[1] = 0 THEN x
    ELSE IF x[2] >= y[2]
    THEN AddAligned(x, y, x[2] - y[2], IF x[2] - y[2] > 30 THEN 25 ELSE x[2] - y[2] - 5)
    ELSE AddAligned(y, x, y[2] - x[2], IF y[2] - x[2] > 30 THEN 25 ELSE y[2] - x[2] - 5)

\* v * 2^24 + low is the 48-bit product of two significands: its leading
\* bits and a sticky bit, rounded.
MulTop(v, low, e, s) ==
    Signed(s, 2 * (v * 32 + (low \div (2 ^ 19))) + (IF low % (2 ^ 19) = 0 THEN 0 ELSE 1),
           e + 18)

\* hh * 2^24 + t * 2^12 + ll, split at bit 24.
MulCarry(hh, t, ll, e, s) == MulTop(hh + (t \div 4096), (t % 4096) * 4096 + ll, e, s)

\* The product of two significands given in 12-bit limbs.
MulLimbs(ah, al, bh, bl, e, s) ==
    MulCarry(ah * bh, ah * bl + al * bh + ((al * bl) \div 4096), (al * bl) % 4096, e, s)

\* x * y.
FMul(x, y) ==
    IF x[1] = 0 \/ y[1] = 0 THEN <<0, 0>>
    ELSE MulLimbs(Abs(x[1]) \div 4096, Abs(x[1]) % 4096,
                  Abs(y[1]) \div 4096, Abs(y[1]) % 4096,
                  x[2] + y[2], IF (x[1] < 0) = (y[1] < 0) THEN 1 ELSE -1)

\* Long division: w more bits of the quotient, qr being <<quotient, remainder>>.
DivStep(qr, d, w) ==
    <<qr[1] * (2 ^ w) + ((qr[2] * (2 ^ w)) \div d), (qr[2] * (2 ^ w)) % d>>

\* a * 2^26 / b as <<quotient, remainder>>.
DivQuot(a, b) ==
    DivStep(DivStep(DivStep(DivStep(<<a \div b, a % b>>, b, 7), b, 7), b, 6), b, 6)

\* The quotient with a sticky bit for the remainder, rounded.
DivRound(qr, s, e) == Signed(s, 2 * qr[1] + (IF qr[2] = 0 THEN 0 ELSE 1), e - 27)

\* x / y.
FDiv(x, y) ==
    IF x[1] = 0 THEN <<0, 0>>
    ELSE DivRound(DivQuot(Abs(x[1]), Abs(y[1])),
                  IF (x[1] < 0) = (y[1] < 0) THEN 1 ELSE -1, x[2] - y[2])

\* ---------------------------------------------------------- gfx/structs.rs
size_of_f32 == 4

\* The fields of each #[repr(C)] record, one name per 4-byte word.
Words(T) ==
    CASE T = "BezierCurveInstance" ->
            <<"offset.x", "offset.y", "p0.x", "p0.y", "p1.x", "p1.y", "p2.x", "p2.y">>
      [] T = "FirstPassUniform" ->
            <<"components.r", "components.g", "components.b", "components.a",
              "scale.x", "scale.y", "translation.x", "translation.y">>
      [] T = "OutputPassUniform" ->
            <<"sample_count", "subpixel_aa", "gamma">>

size_of(T) == size_of_f32 * Len(Words(T))

next_multiple_of(n, m) == IF n % m = 0 THEN n ELSE n + (m - (n % m))

wgpu_align(T, align_vec_size) ==
    next_multiple_of(size_of(T), size_of_f32 * align_vec_size)

\* wgpu::Limits::downlevel_defaults().min_uniform_buffer_offset_alignment
min_uniform_buffer_offset_alignment == 256

WGPU_SIZE(T) ==
    CASE T = "BezierCurveInstance" -> wgpu_align(T, 2)
      [] T = "FirstPassUniform"    -> wgpu_align(T, 4)
      [] T = "OutputPassUniform"   -> wgpu_align(T, 2)

WGPU_STRIDE_unpadded(T) == WGPU_SIZE(T)

WGPU_STRIDE(T) ==
    CASE T = "BezierCurveInstance" -> WGPU_SIZE(T)
      [] T = "FirstPassUniform"    -> min_uniform_buffer_offset_alignment
      [] T = "OutputPassUniform"   -> WGPU_SIZE(T)

\* bytemuck::bytes_of: the record's words in field order.
bytes_of(T, elem) ==
    CASE T = "BezierCurveInstance" ->
            <<elem.offset[1], elem.offset[2], elem.p0[1], elem.p0[2],
              elem.p1[1], elem.p1[2], elem.p2[1], elem.p2[2]>>
      [] T = "FirstPassUniform" ->
            <<elem.components[1], elem.components[2], elem.components[3],
              elem.components[4], elem.scale[1], elem.scale[2],
              elem.translation[1], elem.translation[2]>>
      [] T = "OutputPassUniform" ->
            <<elem.sample_count, elem.subpixel_aa, elem.gamma>>

\* bytemuck::cast_slice: the records of the slice back to back.
RECURSIVE cast_slice(_, _)
cast_slice(T, data) ==
    IF data = <<>> THEN <<>>
    ELSE bytes_of(T, Head(data)) \o cast_slice(T, Tail(data))

\* -------------------------------------------------------- gfx/pipelines.rs
\* The RenderPipelineDescriptor of a first-pass pipeline.
first_pass_pipeline(label, vertex_entry_point, fragment_entry_point, front_face) ==
    [label |-> label,
     bind_group_layout |-> <<"FIRST_PASS_UNIFORM_BINDING_LAYOUT">>,
     vertex |-> [entry_point |-> vertex_entry_point,
                 buffers |-> <<"BezierCurveInstance::VERTEX_BUFFER_LAYOUT">>],
     primitive |-> [topology |-> "TriangleList", front_face |-> front_face,
                    cull_mode |-> None],
     fragment |-> [entry_point |-> fragment_entry_point,
                   blend |-> [color |-> [src_factor |-> "One", dst_factor |-> "One",
                                         operation |-> "Add"],
                              alpha |-> "REPLACE"]]]

\* The RenderPipelineDescriptor of the output-pass pipeline.
output_pass_pipeline ==
    [label |-> "render_postprocess_pipeline",
     bind_group_layout |-> <<"OUTPUT_PASS_UNIFORM_BINDING_LAYOUT",
                             "SAMPLE_TEXTURE_BINDING_LAYOUT">>,
     vertex |-> [entry_point |-> "output_vertex", buffers |-> <<>>],
     primitive |-> [topology |-> "TriangleStrip", front_face |-> "Ccw",
                    cull_mode |-> None],
     fragment |-> [entry_point |-> "output_fragment",
                   blend |-> "ALPHA_BLENDING"]]

\* Pipelines::new
Pipelines_new ==
    [render_triangles |->
        first_pass_pipeline("render_triangle_pipeline", "triangle_vertex",
                            "triangle_fragment", "Cw"),
     render_beziers |->
        first_pass_pipeline("render_bezier_pipeline", "bezier_vertex",
                            "bezier_fragment", "Cw"),
     render_output |-> output_pass_pipeline]

\* --------------------------------------------------------- gfx/renderer.rs
RED == <<F(1), F(0), F(0), F(1)>>
GREEN == <<F(0), F(1), F(0), F(1)>>
BLUE == <<F(0), F(0), F(1), F(1)>>

SAMPLES ==
    << <<<<FDiv(F(0), F(6)), FDiv(F(4), F(6))>>, BLUE>>,
       <<<<FDiv(F(1), F(6)), FDiv(F(1), F(6))>>, BLUE>>,
       <<<<FDiv(F(2), F(6)), FDiv(F(5), F(6))>>, GREEN>>,
       <<<<FDiv(F(3), F(6)), FDiv(F(2), F(6))>>, GREEN>>,
       <<<<FDiv(F(4), F(6)), FDiv(F(3), F(6))>>, RED>>,
       <<<<FDiv(F(5), F(6)), FDiv(F(0), F(6))>>, RED>> >>

\* wgpu::Extent3d::default()
Extent3d_default == <<1, 1, 1>>

\* ------------------------------------------------------------- the device
\* A device state is [gpu, mem, tex, log]: the objects created so far, the buffer
\* memory, and the API calls of the running draw in program order.

create_texture(dev, label, size) ==
    LET id == Len(dev.gpu) + 1
    IN  [dev EXCEPT
            !.gpu = Append(@, [kind |-> "texture", label |-> label, size |-> size]),
            !.tex = @ @@ (id :> <<>>),
            !.log = Append(@, [op |-> "create_texture", id |-> id,
                               label |-> label, size |-> size])]

create_buffer(dev, label, size) ==
    LET id == Len(dev.gpu) + 1
    IN  [dev EXCEPT
            !.gpu = Append(@, [kind |-> "buffer", label |-> label, size |-> size]),
            !.mem = @ @@ (id :> <<>>),
            !.log = Append(@, [op |-> "create_buffer", id |-> id,
                               label |-> label, size |-> size])]

\* queue.write_buffer(buffer, offset, bytes), bytes given as words.
write_buffer(dev, buffer, offset, words) ==
    LET base == offset \div size_of_f32
        old == dev.mem[buffer]
        new == [w \in DOMAIN old \cup (base .. base + Len(words) - 1) |->
                   IF w >= base /\ w < base + Len(words)
                   THEN words[w - base + 1] ELSE old[w]]
    IN  [dev EXCEPT
            !.mem = [@ EXCEPT ![buffer] = new],
            !.log = Append(@, [op |-> "write_buffer", buffer |-> buffer,
                               offset |-> offset,
                               size |-> size_of_f32 * Len(words)])]

create_view(dev, texture) ==
    [dev EXCEPT !.log = Append(@, [op |-> "create_view", texture |-> texture])]

\* A call on the command encoder, a render pass, or the queue.
call(dev, c) == [dev EXCEPT !.log = Append(@, c)]

\* ----------------------------------------------------------- gfx/cached.rs
\* Option::take_if(|(old_key, _)| *old_key != key): what stays in the slot.
take_if_never(slot, key) == slot

take_if_ne(slot, key) == {e \in slot : ~(e[1] # key)}

\* Cached::get with the factory's object named in advance: the slot after
\* the call, the object handed out, and whether the factory ran.
Cached_get_always_new(slot, key, fresh) ==
    [cached |-> Some(<<key, fresh>>), obj |-> fresh, invoked |-> TRUE]

Cached_get(slot, key, fresh) ==
    LET kept == take_if_ne(slot, key)
        after == IF kept = None THEN Some(<<key, fresh>>) ELSE kept
    IN  [cached |-> after, obj |-> Unwrap(after)[2], invoked |-> kept = None]

\* Cached::key
Cached_key(slot) == {e[1] : e \in slot}

\* The key Cached::get_at_least passes on to Cached::get.
at_least_key_smaller(slot, key) ==
    LET older == {old_key \in Cached_key(slot) : old_key < key}
    IN  IF older # None THEN Unwrap(older) ELSE key

at_least_key(slot, key) ==
    LET older == {old_key \in Cached_key(slot) : old_key > key}
    IN  IF older # None THEN Unwrap(older) ELSE key

\* Cached::get_at_least
Cached_get_at_least(slot, key, fresh) ==
    Cached_get(slot, at_least_key(slot, key), fresh)

\* Cached<Extent3d, Texture>::get with the factories of Renderer::new.
Texture_get_keeping_output(slot, dev, label, size) ==
    LET key == IF label = "teqxt_output_pass_texture" /\ slot # None
               THEN Unwrap(slot)[1] ELSE size
        r == Cached_get(slot, key, Len(dev.gpu) + 1)
    IN  [cached |-> r.cached, obj |-> r.obj,
         dev |-> IF r.invoked THEN create_texture(dev, label, key) ELSE dev]

Texture_get(slot, dev, label, size) ==
    LET r == Cached_get(slot, size, Len(dev.gpu) + 1)
    IN  [cached |-> r.cached, obj |-> r.obj,
         dev |-> IF r.invoked THEN create_texture(dev, label, size) ELSE dev]

\* CachedBuffer::get with the factory of CachedBuffer::new.
CachedBuffer_get_at_least(slot, dev, T, label, len) ==
    LET r == Cached_get_at_least(slot, len, Len(dev.gpu) + 1)
    IN  [cached |-> r.cached, obj |-> r.obj,
         dev |-> IF r.invoked
                 THEN create_buffer(dev, label, WGPU_STRIDE(T) * len)
                 ELSE dev]

CachedBuffer_get_unpadded(slot, dev, T, label, len) ==
    LET r == Cached_get(slot, len, Len(dev.gpu) + 1)
    IN  [cached |-> r.cached, obj |-> r.obj,
         dev |-> IF r.invoked
                 THEN create_buffer(dev, label, WGPU_SIZE(T) * len)
                 ELSE dev]

CachedBuffer_get_uncached(slot, dev, T, label, len) ==
    [cached |-> Some(<<len, Len(dev.gpu) + 1>>), obj |-> Len(dev.gpu) + 1,
     dev |-> create_buffer(dev, label, WGPU_STRIDE(T) * len)]

CachedBuffer_get(slot, dev, T, label, len) ==
    LET r == Cached_get(slot, len, Len(dev.gpu) + 1)
    IN  [cached |-> r.cached, obj |-> r.obj,
         dev |-> IF r.invoked
                 THEN create_buffer(dev, label, WGPU_STRIDE(T) * len)
                 ELSE dev]

\* The general case of with_data: elements i.. of data, one write each.
RECURSIVE write_each(_, _, _, _, _)
write_each(dev, buffer, T, data, i) ==
    IF i >= Len(data) THEN dev
    ELSE write_each(write_buffer(dev, buffer, WGPU_STRIDE(T) * i,
                                 bytes_of(T, data[i + 1])),
                    buffer, T, data, i + 1)

\* CachedBuffer::with_data
with_data_always_contiguous(slot, dev, T, label, data) ==
    LET g == CachedBuffer_get(slot, dev, T, label, Len(data))
    IN  [cached |-> g.cached, obj |-> g.obj,
         dev |-> write_buffer(g.dev, g.obj, 0, cast_slice(T, data))]

with_data_when_created(slot, dev, T, label, data) ==
    LET g == CachedBuffer_get(slot, dev, T, label, Len(data))
    IN  [cached |-> g.cached, obj |-> g.obj,
         dev |-> IF g.cached = slot THEN g.dev
                 ELSE IF WGPU_STRIDE(T) = size_of(T)
                 THEN write_buffer(g.dev, g.obj, 0, cast_slice(T, data))
                 ELSE write_each(g.dev, g.obj, T, data, 0)]

with_data(slot, dev, T, label, data) ==
    LET g == CachedBuffer_get(slot, dev, T, label, Len(data))
    IN  [cached |-> g.cached, obj |-> g.obj,
         dev |-> IF WGPU_STRIDE(T) = size_of(T)
                 THEN write_buffer(g.dev, g.obj, 0, cast_slice(T, data))
                 ELSE write_each(g.dev, g.obj, T, data, 0)]

\* ------------------------------------------------- Arc<T> (shared handles)
\* The heap is [strong, value, destroyed]: the strong count and the value of
\* every Arc made so far, by object, and the objects whose value has been
\* dropped.  The value the factory builds is named by the key it was given.

\* Arc::new(value): one owner.
Arc_new(heap, value) ==
    [heap EXCEPT !.strong = Append(@, 1), !.value = Append(@, value)]

\* Arc::clone(obj): one more owner of the same object.
Arc_clone(heap, obj) == [heap EXCEPT !.strong[obj] = @ + 1]

\* Dropping one Arc: the value is dropped with the last owner.
Arc_drop_value(heap, obj) ==
    [heap EXCEPT !.strong[obj] = @ - 1, !.destroyed = @ \cup {obj}]

Arc_drop(heap, obj) ==
    [heap EXCEPT !.strong[obj] = @ - 1,
                 !.destroyed = IF heap.strong[obj] = 1 THEN @ \cup {obj} ELSE @]

\* Cached::get on the Arc heap: take_if drops the slot's Arc on a key
\* mismatch, get_or_insert_with makes a new Arc when the slot is empty, and
\* the caller receives a clone.
Cached_get_arc(slot, heap, key) ==
    LET taken == slot \ take_if_ne(slot, key)
        h1 == IF taken # None THEN Arc_drop(heap, Unwrap(taken)[2]) ELSE heap
        r == Cached_get(slot, key, Len(h1.strong) + 1)
        h2 == IF r.invoked THEN Arc_new(h1, key) ELSE h1
    IN  [cached |-> r.cached, obj |-> r.obj, invoked |-> r.invoked,
         heap |-> Arc_clone(h2, r.obj)]

\* Cached::get statement by statement.  `self.cached.take_if(..);` (line 73):
\* on a key mismatch the entry leaves the slot, and the statement drops it.
Cached_take_deferred(slot, heap, key) == [cached |-> slot, heap |-> heap]

Cached_take(slot, heap, key) ==
    LET taken == slot \ take_if_ne(slot, key)
    IN  [cached |-> take_if_ne(slot, key),
         heap |-> IF taken # None THEN Arc_drop(heap, Unwrap(taken)[2]) ELSE heap]

\* The closure of get_or_insert_with (line 76), run on an empty slot: the
\* factory's object goes into a new Arc, stored with the key.
Cached_insert(slot, heap, key) ==
    [cached |-> Some(<<key, Len(heap.strong) + 1>>), heap |-> Arc_new(heap, key)]

\* ------------------------------------------------------------ draw inputs
\* A glyph list of at most two glyphs is drawn by its shape (curves per
\* glyph); glyph j sits at offset (j, -j) and its k-th curve has control
\* points tagged by (j, k).
Curve(j, k) == <<<<F(10 * j + k), F(0)>>, <<F(10 * j + k), F(1)>>,
                 <<F(10 * j + k), F(2)>>>>

Glyph(j, n) == [offset |-> <<F(j), F(-j)>>, curves |-> [k \in 1..n |-> Curve(j, k)]]

RECURSIVE SumTo(_, _)
SumTo(s, n) == IF n = 0 THEN 0 ELSE s[n] + SumTo(s, n - 1)

GlyphShapes ==
    {s \in UNION {[1..n -> 0..MaxCurves] : n \in 0..2} :
        SumTo(s, Len(s)) <= MaxCurves}

GlyphLists == {[j \in 1..Len(s) |-> Glyph(j, s[j])] : s \in GlyphShapes}

DrawParams ==
    [output_size : (0..MaxWidth) \X (0..MaxHeight),
     px_per_em   : {F(2)},
     translation : {<<F(0), F(0)>>},
     glyphs      : GlyphLists,
     gamma       : {FDiv(F(22), F(10))},
     subpixel_aa : BOOLEAN]

UniformParams ==
    [output_size : {<<0, 3>>, <<200, 100>>, <<3, 7>>},
     px_per_em   : {F(50), F(3)},
     translation : {<<F(0), F(0)>>, <<F(1), FDiv(F(-1), F(4))>>},
     glyphs      : {<<>>, <<Glyph(1, 1)>>},
     gamma       : {FDiv(F(22), F(10)), F(1)},
     subpixel_aa : BOOLEAN]

\* glyphs.iter().flat_map(|glyph| glyph.curves.iter().map(..)).collect()
bezier_data_last_glyph(glyphs, j) ==
    IF glyphs = <<>> THEN <<>>
    ELSE LET glyph == glyphs[Len(glyphs)]
         IN  [k \in 1..Len(glyph.curves) |->
                 [offset |-> glyph.offset, p0 |-> glyph.curves[k][1],
                  p1 |-> glyph.curves[k][2], p2 |-> glyph.curves[k][3]]]

RECURSIVE bezier_data_curves_reversed(_, _)
bezier_data_curves_reversed(glyphs, j) ==
    IF j > Len(glyphs) THEN <<>>
    ELSE [k \in 1..Len(glyphs[j].curves) |->
             [offset |-> glyphs[j].offset,
              p0 |-> glyphs[j].curves[Len(glyphs[j].curves) + 1 - k][1],
              p1 |-> glyphs[j].curves[Len(glyphs[j].curves) + 1 - k][2],
              p2 |-> glyphs[j].curves[Len(glyphs[j].curves) + 1 - k][3]]]
         \o bezier_data_curves_reversed(glyphs, j + 1)

RECURSIVE bezier_data_from(_, _)
bezier_data_from(glyphs, j) ==
    IF j > Len(glyphs) THEN <<>>
    ELSE [k \in 1..Len(glyphs[j].curves) |->
             [offset |-> glyphs[j].offset,
              p0 |-> glyphs[j].curves[k][1],
              p1 |-> glyphs[j].curves[k][2],
              p2 |-> glyphs[j].curves[k][3]]]
         \o bezier_data_from(glyphs, j + 1)

bezier_data_of(params) == bezier_data_from(params.glyphs, 1)

\* SAMPLES.map(|(sample_offset, components)| FirstPassUniform { .. })
first_pass_uniform_data_px_offset(params, ndc_per_em) ==
    [i \in 1..Len(SAMPLES) |->
        [components |-> SAMPLES[i][2],
         scale |-> ndc_per_em,
         translation |->
            <<FAdd(params.translation[1], SAMPLES[i][1][1]),
              FAdd(params.translation[2], SAMPLES[i][1][2])>>]]

first_pass_uniform_data_of(params, ndc_per_em) ==
    [i \in 1..Len(SAMPLES) |->
        [components |-> SAMPLES[i][2],
         scale |-> ndc_per_em,
         translation |->
            <<FAdd(params.translation[1], FDiv(SAMPLES[i][1][1], params.px_per_em)),
              FAdd(params.translation[2], FDiv(SAMPLES[i][1][2], params.px_per_em))>>]]

output_pass_uniform_data_default_gamma(params) ==
    [sample_count |-> Len(SAMPLES),
     subpixel_aa |-> IF params.subpixel_aa THEN 1 ELSE 0,
     gamma |-> FDiv(F(22), F(10))]

output_pass_uniform_data_of(params) ==
    [sample_count |-> Len(SAMPLES),
     subpixel_aa |-> IF params.subpixel_aa THEN 1 ELSE 0,
     gamma |-> params.gamma]

\* for i in 0..SAMPLES.len(): set_bind_group at i * WGPU_STRIDE, then draw.
RECURSIVE sample_draws_but_last(_, _, _, _)
sample_draws_but_last(dev, bind_group, instances, i) ==
    IF i >= Len(SAMPLES) - 1 THEN dev
    ELSE sample_draws_but_last(
            call(call(dev, [op |-> "set_bind_group", bind_group |-> bind_group,
                            offsets |-> <<i * WGPU_STRIDE("FirstPassUniform")>>]),
                 [op |-> "draw", vertices |-> <<0, 3>>, instances |-> <<0, instances>>]),
            bind_group, instances, i + 1)

RECURSIVE sample_draws(_, _, _, _)
sample_draws(dev, bind_group, instances, i) ==
    IF i >= Len(SAMPLES) THEN dev
    ELSE sample_draws(
            call(call(dev, [op |-> "set_bind_group", bind_group |-> bind_group,
                            offsets |-> <<i * WGPU_STRIDE("FirstPassUniform")>>]),
                 [op |-> "draw", vertices |-> <<0, 3>>, instances |-> <<0, instances>>]),
            bind_group, instances, i + 1)

\* `load: wgpu::LoadOp::Clear(wgpu::Color::TRANSPARENT)` of the first pass.
first_pass_load_kept == "Load"

first_pass_load == "Clear(TRANSPARENT)"

\* The first render pass (renderer.rs 213-259).
first_render_pass_beziers_first(dev, view, vertex_buffer, uniform_buffer, instances) ==
    LET bind_group == [label |-> "teqxt_main_render_pass_bind_group",
                       buffer |-> uniform_buffer, offset |-> 0,
                       size |-> WGPU_SIZE("FirstPassUniform")]
        d1 == call(dev, [op |-> "begin_render_pass", label |-> "teqxt_main_render_pass",
                         view |-> view, load |-> first_pass_load])
        d2 == call(d1, [op |-> "set_vertex_buffer", slot |-> 0, buffer |-> vertex_buffer])
        d3 == call(d2, [op |-> "create_bind_group", bind_group |-> bind_group])
        d4 == call(d3, [op |-> "set_pipeline", pipeline |-> "render_beziers"])
        d5 == sample_draws(d4, bind_group, instances, 0)
        d6 == call(d5, [op |-> "set_pipeline", pipeline |-> "render_triangles"])
        d7 == sample_draws(d6, bind_group, instances, 0)
    IN  call(d7, [op |-> "end_render_pass", label |-> "teqxt_main_render_pass"])

first_render_pass(dev, view, vertex_buffer, uniform_buffer, instances) ==
    LET bind_group == [label |-> "teqxt_main_render_pass_bind_group",
                       buffer |-> uniform_buffer, offset |-> 0,
                       size |-> WGPU_SIZE("FirstPassUniform")]
        d1 == call(dev, [op |-> "begin_render_pass", label |-> "teqxt_main_render_pass",
                         view |-> view, load |-> first_pass_load])
        d2 == call(d1, [op |-> "set_vertex_buffer", slot |-> 0, buffer |-> vertex_buffer])
        d3 == call(d2, [op |-> "create_bind_group", bind_group |-> bind_group])
        d4 == call(d3, [op |-> "set_pipeline", pipeline |-> "render_triangles"])
        d5 == sample_draws(d4, bind_group, instances, 0)
        d6 == call(d5, [op |-> "set_pipeline", pipeline |-> "render_beziers"])
        d7 == sample_draws(d6, bind_group, instances, 0)
    IN  call(d7, [op |-> "end_render_pass", label |-> "teqxt_main_render_pass"])

\* The output render pass (renderer.rs 261-300).
output_render_pass_sampling_target(dev, view, uniform_buffer, sample_view) ==
    LET bind_group == [label |-> "teqxt_postprocess_render_pass_bind_group",
                       buffer |-> uniform_buffer, texture_view |-> view]
        d1 == call(dev, [op |-> "begin_render_pass",
                         label |-> "teqxt_postprocess_render_pass",
                         view |-> view, load |-> "Clear(TRANSPARENT)"])
        d2 == call(d1, [op |-> "set_pipeline", pipeline |-> "render_output"])
        d3 == call(d2, [op |-> "create_bind_group", bind_group |-> bind_group])
        d4 == call(d3, [op |-> "set_bind_group", bind_group |-> bind_group,
                        offsets |-> <<>>])
        d5 == call(d4, [op |-> "draw", vertices |-> <<0, 4>>, instances |-> <<0, 1>>])
    IN  call(d5, [op |-> "end_render_pass", label |-> "teqxt_postprocess_render_pass"])

output_render_pass(dev, view, uniform_buffer, sample_view) ==
    LET bind_group == [label |-> "teqxt_postprocess_render_pass_bind_group",
                       buffer |-> uniform_buffer, texture_view |-> sample_view]
        d1 == call(dev, [op |-> "begin_render_pass",
                         label |-> "teqxt_postprocess_render_pass",
                         view |-> view, load |-> "Clear(TRANSPARENT)"])
        d2 == call(d1, [op |-> "set_pipeline", pipeline |-> "render_output"])
        d3 == call(d2, [op |-> "create_bind_group", bind_group |-> bind_group])
        d4 == call(d3, [op |-> "set_bind_group", bind_group |-> bind_group,
                        offsets |-> <<>>])
        d5 == call(d4, [op |-> "draw", vertices |-> <<0, 4>>, instances |-> <<0, 1>>])
    IN  call(d5, [op |-> "end_render_pass", label |-> "teqxt_postprocess_render_pass"])

\* `[2.0 / size.width as f32, 2.0 / size.height as f32]`
ndc_per_px_of(size) == <<FDiv(F(2), F(size[1])), FDiv(F(2), F(size[2]))>>

\* `[ndc_per_px[0] * params.px_per_em, ndc_per_px[1] * params.px_per_em]`
ndc_per_em_unscaled(ndc_per_px, px_per_em) == ndc_per_px

ndc_per_em_of(ndc_per_px, px_per_em) ==
    <<FMul(ndc_per_px[1], px_per_em), FMul(ndc_per_px[2], px_per_em)>>

\* The device runs the render passes of a submitted command buffer, from
\* position k of the encoded commands on.  A pass that loads with Clear
\* empties its target; every draw command is blended into the target of its
\* pass, with the pipeline, bind group and dynamic offsets then in force.
RECURSIVE execute(_, _, _)
execute(log, k, st) ==
    IF k > Len(log) THEN st
    ELSE LET c == log[k]
         IN  execute(log, k + 1,
                CASE c.op = "begin_render_pass" ->
                        [st EXCEPT !.target = c.view.texture,
                                   !.tex = IF c.load = "Load" THEN @
                                           ELSE [@ EXCEPT ![c.view.texture] = <<>>]]
                  [] c.op = "set_pipeline" -> [st EXCEPT !.pipeline = c.pipeline]
                  [] c.op = "set_bind_group" ->
                        [st EXCEPT !.bind_group = c.bind_group, !.offsets = c.offsets]
                  [] c.op = "draw" ->
                        [st EXCEPT !.tex[st.target] =
                            Append(@, [pipeline |-> st.pipeline,
                                       bind_group |-> st.bind_group,
                                       offsets |-> st.offsets,
                                       vertices |-> c.vertices,
                                       instances |-> c.instances])]
                  [] OTHER -> st)

\* `self.gfx.queue.submit([encoder.finish()])`
submit_dropped(dev) == call(dev, [op |-> "finish"])

submit_finished(dev) ==
    [call(call(dev, [op |-> "finish"]), [op |-> "submit", command_buffers |-> 1])
        EXCEPT !.tex = execute(dev.log, 1, [tex |-> dev.tex, target |-> 0,
                                            pipeline |-> "none", bind_group |-> "none",
                                            offsets |-> <<>>]).tex]

\* Gfx::dummy_texture: the first object the device created.
dummy_texture == 1

\* `params.output_size[0] == 0 || params.output_size[1] == 0`
zero_size_and(output_size) == output_size[1] = 0 /\ output_size[2] = 0

zero_size_width_only(output_size) == output_size[1] = 0

zero_size(output_size) == output_size[1] = 0 \/ output_size[2] = 0

\* `wgpu::Extent3d { width, height, depth_or_array_layers: 1 }`
extent_swapped(output_size) == <<output_size[2], output_size[1], 1>>

extent_of(output_size) == <<output_size[1], output_size[2], 1>>

\* `bezier_instance_count == 0`
empty_draw_single(bezier_instance_count) == bezier_instance_count = 1

empty_draw_never(bezier_instance_count) == bezier_instance_count < 0

empty_draw(bezier_instance_count) == bezier_instance_count = 0

\* The renderer's caches and the device, as draw leaves them, with the view
\* it returns.
Renderer_state(fpt, opt, bib, fub, oub, dev, acq, ret) ==
    [first_pass_texture |-> fpt, output_pass_texture |-> opt,
     bezier_instance_buffer |-> bib, first_pass_uniform_buffer |-> fub,
     output_pass_uniform_buffer |-> oub, dev |-> dev, acquire_size |-> acq,
     ret |-> ret]

\* Renderer::draw from the second early return on (renderer.rs 188-305).
draw_passes(params, size, t1, t2, d4, bezier_data, ndc_per_em) ==
    LET b1 == with_data(bezier_instance_buffer, d4, "BezierCurveInstance",
                        "bezier_instance_buffer", bezier_data)
        b2 == with_data(first_pass_uniform_buffer, b1.dev, "FirstPassUniform",
                        "first_pass_uniform_buffer",
                        first_pass_uniform_data_of(params, ndc_per_em))
        b3 == with_data(output_pass_uniform_buffer, b2.dev, "OutputPassUniform",
                        "output_pass_uniform_buffer",
                        <<output_pass_uniform_data_of(params)>>)
        p1 == first_render_pass(b3.dev, [texture |-> t1.obj], b1.obj, b2.obj,
                                Len(bezier_data))
        p2 == output_render_pass(p1, [texture |-> t2.obj], b3.obj,
                                 [texture |-> t1.obj])
        d5 == submit_finished(p2)
    IN  Renderer_state(t1.cached, t2.cached, b1.cached, b2.cached, b3.cached,
                       d5, Some(size), [texture |-> t2.obj])

\* Renderer::draw (renderer.rs 138-305).
draw(params) ==
    LET dev0 == [gpu |-> gpu, mem |-> mem, tex |-> tex, log |-> <<>>]
    IN  IF zero_size(params.output_size)
        THEN Renderer_state(first_pass_texture, output_pass_texture,
                            bezier_instance_buffer, first_pass_uniform_buffer,
                            output_pass_uniform_buffer,
                            create_view(dev0, dummy_texture), acquire_size,
                            [texture |-> dummy_texture])
        ELSE
        LET d1 == call(dev0, [op |-> "create_command_encoder",
                              label |-> "teqxt_render_encoder"])
            size == extent_of(params.output_size)
            t1 == Texture_get(first_pass_texture, d1, "teqxt_first_pass_texture", size)
            t2 == Texture_get(output_pass_texture, t1.dev, "teqxt_output_pass_texture", size)
            d3 == create_view(t2.dev, t1.obj)
            d4 == create_view(d3, t2.obj)
            ndc_per_px == ndc_per_px_of(size)
            ndc_per_em == ndc_per_em_of(ndc_per_px, params.px_per_em)
            bezier_data == bezier_data_of(params)
            bezier_instance_count == Len(bezier_data)
        IN  IF empty_draw(bezier_instance_count)
            THEN Renderer_state(t1.cached, t2.cached, bezier_instance_buffer,
                                first_pass_uniform_buffer, output_pass_uniform_buffer,
                                create_view(d4, dummy_texture), Some(size),
                                [texture |-> dummy_texture])
            ELSE draw_passes(params, size, t1, t2, d4, bezier_data, ndc_per_em)

\* The caches as a draw call finds them.
Snapshot ==
    [first_pass_texture |-> first_pass_texture,
     output_pass_texture |-> output_pass_texture,
     bezier_instance_buffer |-> bezier_instance_buffer,
     first_pass_uniform_buffer |-> first_pass_uniform_buffer,
     output_pass_uniform_buffer |-> output_pass_uniform_buffer,
     acquire_size |-> acquire_size,
     objects |-> Len(gpu),
     coverage |-> {Len(tex[e[2]]) : e \in first_pass_texture}]

\* One call of Renderer::draw by the embedding application, which holds no
\* view of an earlier frame any more.
Draw_rebuilding_pipelines ==
    /\ last = None
    /\ Len(gpu) < MaxObjects
    /\ \E params \in DrawParams :
         \E r \in {draw(params)} :
             /\ first_pass_texture' = r.first_pass_texture
             /\ output_pass_texture' = r.output_pass_texture
             /\ bezier_instance_buffer' = r.bezier_instance_buffer
             /\ first_pass_uniform_buffer' = r.first_pass_uniform_buffer
             /\ output_pass_uniform_buffer' = r.output_pass_uniform_buffer
             /\ gpu' = r.dev.gpu
             /\ mem' = r.dev.mem
             /\ tex' = r.dev.tex
             /\ acquire_size' = r.acquire_size
             /\ last' = Some([params |-> params, ret |-> r.ret,
                              log |-> r.dev.log, pre |-> Snapshot])
    /\ pipelines' = [pipelines EXCEPT !.render_beziers =
                        first_pass_pipeline("render_bezier_pipeline", "bezier_vertex",
                                            "bezier_fragment", "Ccw")]
    /\ UNCHANGED cvars

Draw ==
    /\ last = None
    /\ Len(gpu) < MaxObjects
    /\ \E params \in DrawParams :
         \E r \in {draw(params)} :
             /\ first_pass_texture' = r.first_pass_texture
             /\ output_pass_texture' = r.output_pass_texture
             /\ bezier_instance_buffer' = r.bezier_instance_buffer
             /\ first_pass_uniform_buffer' = r.first_pass_uniform_buffer
             /\ output_pass_uniform_buffer' = r.output_pass_uniform_buffer
             /\ gpu' = r.dev.gpu
             /\ mem' = r.dev.mem
             /\ tex' = r.dev.tex
             /\ acquire_size' = r.acquire_size
             /\ last' = Some([params |-> params, ret |-> r.ret,
                              log |-> r.dev.log, pre |-> Snapshot])
    /\ UNCHANGED <<pipelines, cvars>>

\* A draw call of an application that varies the uniform inputs: pixel
\* sizes as a window has them, font size, translation, gamma and the
\* subpixel flag, over one glyph of one curve or no glyph at all.
DrawUniforms ==
    /\ last = None
    /\ Len(gpu) < MaxObjects
    /\ \E params \in UniformParams :
         \E r \in {draw(params)} :
             /\ first_pass_texture' = r.first_pass_texture
             /\ output_pass_texture' = r.output_pass_texture
             /\ bezier_instance_buffer' = r.bezier_instance_buffer
             /\ first_pass_uniform_buffer' = r.first_pass_uniform_buffer
             /\ output_pass_uniform_buffer' = r.output_pass_uniform_buffer
             /\ gpu' = r.dev.gpu
             /\ mem' = r.dev.mem
             /\ tex' = r.dev.tex
             /\ acquire_size' = r.acquire_size
             /\ last' = Some([params |-> params, ret |-> r.ret,
                              log |-> r.dev.log, pre |-> Snapshot])
    /\ UNCHANGED <<pipelines, cvars>>

\* The embedding application has presented the frame and drops the texture
\* view that draw returned.
EndFrame ==
    /\ last # None
    /\ last' = None
    /\ UNCHANGED <<first_pass_texture, output_pass_texture, bezier_instance_buffer,
                   first_pass_uniform_buffer, output_pass_uniform_buffer, pipelines,
                   gpu, mem, tex, acquire_size>>
    /\ UNCHANGED cvars

\* The caller of the stand-alone cache keeps the returned handle in a free
\* place h, or lets it go at once (h = 0).
Receive(heap, obj, h) ==
    /\ h # 0 => handles[h] = 0
    /\ arcs' = IF h = 0 THEN Arc_drop(heap, obj) ELSE heap
    /\ handles' = IF h = 0 THEN handles ELSE [handles EXCEPT ![h] = obj]

\* One call of Cached::get(key).
CachedGet ==
    /\ Len(calls) < MaxCalls
    /\ \E key \in 0..MaxKey, h \in 0..MaxHolders :
         \E r \in {Cached_get_arc(cached, arcs, key)} :
             /\ cached' = r.cached
             /\ Receive(r.heap, r.obj, h)
             /\ calls' = Append(calls, [op |-> "get", key |-> key, get_key |-> key,
                                        invoked |-> r.invoked, obj |-> r.obj,
                                        stored |-> Cached_key(r.cached)])
    /\ UNCHANGED get_call
    /\ UNCHANGED rvars

\* One call of Cached::get_at_least(key).
CachedGetAtLeast ==
    /\ Len(calls) < MaxCalls
    /\ \E key \in 0..MaxKey, h \in 0..MaxHolders :
         \E r \in {Cached_get_arc(cached, arcs, at_least_key(cached, key))} :
             /\ cached' = r.cached
             /\ Receive(r.heap, r.obj, h)
             /\ calls' = Append(calls, [op |-> "get_at_least", key |-> key,
                                        get_key |-> at_least_key(cached, key),
                                        invoked |-> r.invoked, obj |-> r.obj,
                                        stored |-> Cached_key(r.cached)])
    /\ UNCHANGED get_call
    /\ UNCHANGED rvars

\* Cached::get(key) begins: take_if has run (line 73).
GetTakeIf ==
    /\ get_call = None
    /\ Len(calls) < MaxCalls
    /\ \E key \in 0..MaxKey :
         \E r \in {Cached_take(cached, arcs, key)} :
             /\ cached' = r.cached
             /\ arcs' = r.heap
             /\ get_call' = Some([key |-> key, before |-> cached])
    /\ UNCHANGED <<handles, calls>>
    /\ UNCHANGED rvars

\* get_or_insert_with finds the slot empty; the factory returns an object,
\* which is stored (line 76).
GetFactory ==
    /\ cached = None
    /\ \E g \in get_call :
         \E r \in {Cached_insert(cached, arcs, g.key)} :
             /\ cached' = r.cached
             /\ arcs' = r.heap
    /\ UNCHANGED <<handles, calls, get_call>>
    /\ UNCHANGED rvars

\* get_or_insert_with finds the slot empty; the factory panics and the call
\* unwinds (line 76).
GetFactoryFails ==
    /\ cached = None
    /\ \E g \in get_call :
         calls' = Append(calls, [op |-> "get_unwound", key |-> g.key,
                                 get_key |-> g.key, invoked |-> TRUE, obj |-> 0,
                                 stored |-> Cached_key(cached),
                                 before |-> g.before])
    /\ get_call' = None
    /\ UNCHANGED <<cached, arcs, handles>>
    /\ UNCHANGED rvars

\* The call returns a clone of the Arc in the slot (line 77).
GetReturn ==
    /\ cached # None
    /\ \E g \in get_call, h \in 0..MaxHolders :
         /\ Receive(Arc_clone(arcs, Unwrap(cached)[2]), Unwrap(cached)[2], h)
         /\ calls' = Append(calls, [op |-> "get", key |-> g.key, get_key |-> g.key,
                                    invoked |-> cached # g.before,
                                    obj |-> Unwrap(cached)[2],
                                    stored |-> Cached_key(cached),
                                    before |-> g.before])
    /\ get_call' = None
    /\ UNCHANGED cached
    /\ UNCHANGED rvars

\* A caller drops a handle it holds.
DropHandle ==
    /\ \E h \in 1..MaxHolders :
         /\ handles[h] # 0
         /\ arcs' = Arc_drop(arcs, handles[h])
         /\ handles' = [handles EXCEPT ![h] = 0]
    /\ UNCHANGED <<cached, calls, get_call>>
    /\ UNCHANGED rvars

\* Gfx::new followed by Renderer::new: the dummy texture exists, every
\* cache is empty.  Cached::new: the slot is empty.
Init ==
    /\ first_pass_texture = None
    /\ output_pass_texture = None
    /\ bezier_instance_buffer = None
    /\ first_pass_uniform_buffer = None
    /\ output_pass_uniform_buffer = None
    /\ pipelines = Pipelines_new
    /\ gpu = <<[kind |-> "texture", label |-> "dummy_texture", size |-> Extent3d_default]>>
    /\ mem = <<>>
    /\ tex = (dummy_texture :> <<>>)
    /\ acquire_size = None
    /\ last = None
    /\ cached = None
    /\ arcs = [strong |-> <<>>, value |-> <<>>, destroyed |-> {}]
    /\ handles = [h \in 1..MaxHolders |-> 0]
    /\ calls = <<>>
    /\ get_call = None

vars == <<rvars, cvars>>

\* The renderer, driven by draw calls.
Next == Draw \/ EndFrame

Spec == Init /\ [][Next]_vars

\* The resource cache on its own, driven by its callers.
NextCache == CachedGet \/ CachedGetAtLeast \/ DropHandle

SpecCache == Init /\ [][NextCache]_vars

\* One Cached::get at a time, observed between its statements.
NextGet == GetTakeIf \/ GetFactory \/ GetFactoryFails \/ GetReturn \/ DropHandle

SpecGet == Init /\ [][NextGet]_vars

\* The renderer, driven by draw calls that vary the uniform inputs.
NextUniforms == DrawUniforms \/ EndFrame

SpecUniforms == Init /\ [][NextUniforms]_vars

\* ------------------------------------------------------------- properties
\* Sum of curves.len() over the glyphs of a draw call.
RECURSIVE TotalCurves(_)
TotalCurves(glyphs) ==
    IF glyphs = <<>> THEN 0
    ELSE Len(Head(glyphs).curves) + TotalCurves(Tail(glyphs))

ZeroSized(c) == c.params.output_size[1] = 0 \/ c.params.output_size[2] = 0

NonDegenerate(c) == ~ZeroSized(c) /\ TotalCurves(c.params.glyphs) > 0

\* The positions in a call's log of the API calls with the given name.
Ops(c, name) == {i \in 1..Len(c.log) : c.log[i].op = name}

\* Every cache holds what it held when the call began.
CachesAsBefore(c) ==
    /\ first_pass_texture = c.pre.first_pass_texture
    /\ output_pass_texture = c.pre.output_pass_texture
    /\ bezier_instance_buffer = c.pre.bezier_instance_buffer
    /\ first_pass_uniform_buffer = c.pre.first_pass_uniform_buffer
    /\ output_pass_uniform_buffer = c.pre.output_pass_uniform_buffer

DummyView == [texture |-> dummy_texture]

\* C1: a draw whose output_size has a zero width or height returns a view of
\* the dummy texture; its only API call is the creation of that view (no
\* cache acquisition, buffer write, texture or buffer creation, draw command
\* or submission), and every cache holds the same key and object as before.
C1_ZeroSizeDrawDoesNothing ==
    \A c \in last :
        ZeroSized(c) =>
            /\ c.ret = DummyView
            /\ c.log = <<[op |-> "create_view", texture |-> dummy_texture]>>
            /\ CachesAsBefore(c)
            /\ Len(gpu) = c.pre.objects
            /\ acquire_size = c.pre.acquire_size

C1_Witness ==
    \E c \in last :
        /\ ZeroSized(c)
        /\ TotalCurves(c.params.glyphs) > 0
        /\ c.pre.output_pass_texture # None
        /\ c.pre.bezier_instance_buffer # None

\* C2: a draw whose glyphs hold no curve at all returns a view of the 1x1
\* dummy texture made at Gfx construction, for every output_size, and never
\* a view of the output-pass texture.
C2_EmptyDrawReturnsDummy ==
    \A c \in last :
        TotalCurves(c.params.glyphs) = 0 =>
            /\ c.ret.texture = dummy_texture
            /\ gpu[c.ret.texture].label = "dummy_texture"
            /\ gpu[c.ret.texture].size = <<1, 1, 1>>
            /\ \A e \in output_pass_texture : c.ret.texture # e[2]

C2_Witness ==
    \E c \in last :
        /\ ~ZeroSized(c)
        /\ Len(c.params.glyphs) > 0
        /\ TotalCurves(c.params.glyphs) = 0
        /\ output_pass_texture # None
        /\ c.ret = DummyView

\* C3 (as claimed): a draw with a non-zero output_size and no curve creates
\* no texture, buffer or command encoder and leaves the key and object of
\* both texture caches as they were.
C3_EmptyDrawIssuesNoWork ==
    \A c \in last :
        (~ZeroSized(c) /\ TotalCurves(c.params.glyphs) = 0) =>
            /\ Ops(c, "create_texture") = {}
            /\ Ops(c, "create_buffer") = {}
            /\ Ops(c, "create_command_encoder") = {}
            /\ first_pass_texture = c.pre.first_pass_texture
            /\ output_pass_texture = c.pre.output_pass_texture

\* C4: a draw that reaches the texture caches with the output_size of the
\* previous such draw creates no texture and leaves both caches holding the
\* same objects; with a different output_size (or none before) it creates
\* both textures anew with the extent of the new output_size.
C4_TexturesFollowOutputSize ==
    \A c \in last :
        ~ZeroSized(c) =>
            LET size == <<c.params.output_size[1], c.params.output_size[2], 1>>
                made == Ops(c, "create_texture")
            IN  IF c.pre.acquire_size = Some(size)
                THEN /\ made = {}
                     /\ first_pass_texture = c.pre.first_pass_texture
                     /\ output_pass_texture = c.pre.output_pass_texture
                ELSE /\ Cardinality(made) = 2
                     /\ \A i \in made : c.log[i].size = size
                     /\ \E e1 \in first_pass_texture, e2 \in output_pass_texture :
                          /\ e1[1] = size /\ e2[1] = size
                          /\ e1[2] # e2[2]
                          /\ {e1[2], e2[2]} = {c.log[i].id : i \in made}
                          /\ e1[2] > c.pre.objects /\ e2[2] > c.pre.objects
                          /\ gpu[e1[2]].size = size /\ gpu[e2[2]].size = size

C4_Witness ==
    \E c \in last :
        /\ ~ZeroSized(c)
        /\ c.pre.acquire_size # None
        /\ c.pre.acquire_size # Some(<<c.params.output_size[1], c.params.output_size[2], 1>>)
        /\ c.pre.output_pass_texture # None
        /\ Cardinality(Ops(c, "create_texture")) = 2

\* The slot of the stand-alone cache before its i-th call.
StoredBefore(i) == IF i = 1 THEN {} ELSE calls[i - 1].stored

\* C5: Cached::get runs the factory exactly when the slot is empty or holds
\* another key than the one asked for; otherwise it hands out the object of
\* the previous call.  After each call key() is Some(the key asked for), and
\* a populated cache is never empty again.
C5_GetInvalidatesOnKeyChange ==
    /\ \A i \in 1..Len(calls) :
          /\ calls[i].invoked <=> (StoredBefore(i) = {} \/ StoredBefore(i) # {calls[i].get_key})
          /\ (~calls[i].invoked) => (i > 1 /\ calls[i].obj = calls[i - 1].obj)
          /\ calls[i].invoked => \A j \in 1..(i - 1) : calls[j].obj # calls[i].obj
          /\ calls[i].stored = {calls[i].get_key}
    /\ calls # <<>> =>
          /\ cached # None
          /\ Cached_key(cached) = {calls[Len(calls)].get_key}
          /\ \A e \in cached : e[2] = calls[Len(calls)].obj

C5_Witness ==
    /\ Len(calls) >= 3
    /\ \A i \in 1..3 : calls[i].op = "get"
    /\ calls[2].key = calls[1].key /\ ~calls[2].invoked
    /\ calls[3].key # calls[2].key /\ calls[3].invoked

\* The largest key asked for in the first i calls.
RECURSIVE MaxAsked(_)
MaxAsked(i) ==
    IF i = 1 THEN calls[1].key
    ELSE IF calls[i].key > MaxAsked(i - 1) THEN calls[i].key ELSE MaxAsked(i - 1)

\* C6: over a sequence of get_at_least calls the factory runs only at the
\* first call and at calls whose key exceeds the stored key; a call with
\* key <= stored key hands out the existing object and leaves the stored key
\* alone, so the stored key never decreases and is the largest key asked for.
C6_GetAtLeastIsMonotonic ==
    (\A i \in 1..Len(calls) : calls[i].op = "get_at_least") =>
        \A i \in 1..Len(calls) :
            /\ calls[i].invoked <=>
                  (i = 1 \/ \E k \in StoredBefore(i) : calls[i].key > k)
            /\ (i > 1 /\ \E k \in StoredBefore(i) : calls[i].key <= k) =>
                  /\ calls[i].obj = calls[i - 1].obj
                  /\ calls[i].stored = calls[i - 1].stored
            /\ i > 1 => \E k \in StoredBefore(i), k2 \in calls[i].stored : k2 >= k
            /\ calls[i].stored = {MaxAsked(i)}

\* The requests 10, 10, 5, 20 of the example, scaled to 1, 1, 0, 2.
C6_Witness ==
    /\ Len(calls) = 4
    /\ \A i \in 1..4 : calls[i].op = "get_at_least"
    /\ <<calls[1].key, calls[2].key, calls[3].key, calls[4].key>> = <<1, 1, 0, 2>>
    /\ <<calls[1].invoked, calls[2].invoked, calls[3].invoked, calls[4].invoked>>
          = <<TRUE, FALSE, FALSE, TRUE>>

\* The objects the cache slot or a caller still refers to.
Referenced == {e[2] : e \in cached} \cup {handles[h] : h \in {g \in 1..MaxHolders : handles[g] # 0}}

\* C7: an object handed out by Cached::get is not destroyed while a handle
\* to it is held, also after the cache has replaced it; an object is
\* destroyed only when neither the cache nor any caller refers to it; and
\* the object a call handed out remains the one built for that call's key.
C7_HandlesStayValid ==
    /\ \A h \in 1..MaxHolders :
          handles[h] # 0 =>
              /\ handles[h] \in 1..Len(arcs.strong)
              /\ handles[h] \notin arcs.destroyed
              /\ \E i \in 1..Len(calls) : calls[i].obj = handles[h]
    /\ \A i \in 1..Len(calls) : arcs.value[calls[i].obj] = calls[i].get_key
    /\ \A obj \in arcs.destroyed : obj \notin Referenced
    /\ \A e \in cached : e[2] \notin arcs.destroyed

C7_Witness ==
    \E h \in 1..MaxHolders :
        /\ handles[h] # 0
        /\ \A e \in cached : e[2] # handles[h]
        /\ handles[h] \notin arcs.destroyed
        /\ arcs.destroyed # {}

\* C8: a non-degenerate draw returns a view of the texture held by the
\* output-pass texture cache, and that texture has extent
\* (output_size[0], output_size[1], 1).
C8_ReturnsOutputTexture ==
    \A c \in last :
        NonDegenerate(c) =>
            /\ output_pass_texture # None
            /\ \A e \in output_pass_texture :
                  /\ c.ret = [texture |-> e[2]]
                  /\ gpu[e[2]].kind = "texture"
                  /\ gpu[e[2]].label = "teqxt_output_pass_texture"
                  /\ gpu[e[2]].size =
                        <<c.params.output_size[1], c.params.output_size[2], 1>>

C8_Witness ==
    \E c \in last :
        /\ NonDegenerate(c)
        /\ c.pre.output_pass_texture # None
        /\ c.pre.output_pass_texture # output_pass_texture
        /\ c.params.output_size[1] # c.params.output_size[2]

\* The write_buffer calls of a draw that target the given buffer.
WritesTo(c, buffer) == {i \in Ops(c, "write_buffer") : c.log[i].buffer = buffer}

RECURSIVE SumSizes(_, _)
SumSizes(c, is) ==
    IF is = {} THEN 0
    ELSE LET i == CHOOSE x \in is : TRUE
         IN  c.log[i].size + SumSizes(c, is \ {i})

\* C9: in a non-degenerate draw the number of curve-instance records
\* uploaded, the length key of the curve-instance buffer cache and the
\* instance count of every first-pass draw command equal the sum of
\* curves.len() over the glyphs.
C9_InstanceCountIsTotalCurves ==
    \A c \in last :
        NonDegenerate(c) =>
            LET n == TotalCurves(c.params.glyphs)
            IN  /\ Cached_key(bezier_instance_buffer) = {n}
                /\ \A e \in bezier_instance_buffer :
                      /\ WritesTo(c, e[2]) # {}
                      /\ SumSizes(c, WritesTo(c, e[2])) = n * 32
                      /\ DOMAIN mem[e[2]] = 0 .. (8 * n - 1)
                /\ \A i \in Ops(c, "draw") :
                      c.log[i].vertices = <<0, 3>> => c.log[i].instances = <<0, n>>
                /\ \E i \in Ops(c, "draw") : c.log[i].vertices = <<0, 3>>

C9_Witness ==
    \E c \in last :
        /\ NonDegenerate(c)
        /\ Len(c.params.glyphs) = 2
        /\ \A j \in 1..2 : Len(c.params.glyphs[j].curves) > 0
        /\ Cached_key(bezier_instance_buffer) =
              {Len(c.params.glyphs[1].curves) + Len(c.params.glyphs[2].curves)}

\* C10: once a non-degenerate draw has happened the first-pass uniform
\* buffer holds exactly 6 blocks whatever the glyph count; a non-degenerate
\* draw writes block i at byte offset i * 256, and every such offset and
\* every dynamic offset passed to set_bind_group is a multiple of each
\* minimum uniform-buffer offset alignment a device can report (a power of
\* two up to 256).
C10_SixAlignedUniformBlocks ==
    /\ \A e \in first_pass_uniform_buffer :
          /\ e[1] = 6
          /\ gpu[e[2]].size = 6 * 256
          /\ DOMAIN mem[e[2]] = UNION {(64 * i) .. (64 * i + 7) : i \in 0..5}
    /\ \A c \in last :
          NonDegenerate(c) =>
              /\ first_pass_uniform_buffer # None
              /\ \A e \in first_pass_uniform_buffer :
                    /\ {c.log[i].offset : i \in WritesTo(c, e[2])} = {256 * i : i \in 0..5}
                    /\ Cardinality(WritesTo(c, e[2])) = 6
                    /\ \A i, j \in WritesTo(c, e[2]) :
                          i < j => c.log[i].offset < c.log[j].offset
              /\ \A i \in Ops(c, "set_bind_group") :
                    \A k \in 1..Len(c.log[i].offsets) :
                        \A a \in {32, 64, 128, 256} : c.log[i].offsets[k] % a = 0
              /\ \E i \in Ops(c, "set_bind_group") : c.log[i].offsets = <<5 * 256>>

C10_Witness ==
    \E c \in last :
        /\ NonDegenerate(c)
        /\ c.pre.first_pass_uniform_buffer # None
        /\ TotalCurves(c.params.glyphs) # 6
        /\ \E e \in first_pass_uniform_buffer : Cardinality(WritesTo(c, e[2])) = 6

\* The words of the output-pass uniform buffer are those of the block
\* (sample_count 6, subpixel_aa as 0/1, gamma) of the parameters of c.
HoldsOutputBlockOf(c, memory, buffer) ==
    /\ DOMAIN memory[buffer] = 0..2
    /\ memory[buffer][0] = 6
    /\ memory[buffer][1] = (IF c.params.subpixel_aa THEN 1 ELSE 0)
    /\ memory[buffer][2] = c.params.gamma

\* C11 (as claimed): after every draw call, degenerate or not, the block in
\* the output-pass uniform buffer has the gamma and subpixel_aa of that
\* call's DrawParams and sample_count 6.
C11_OutputBlockAfterEveryDraw ==
    \A c \in last :
        \A e \in output_pass_uniform_buffer : HoldsOutputBlockOf(c, mem, e[2])

\* C11 (amended): a non-degenerate draw leaves the output-pass uniform
\* buffer holding sample_count 6 and the subpixel_aa (as 0/1) and gamma of
\* its own DrawParams; a degenerate draw leaves that buffer and its contents
\* as they were.
C11_OutputBlockFollowsDraw ==
    [][\A c \in last' :
          last = None =>
              IF NonDegenerate(c)
              THEN /\ output_pass_uniform_buffer' # None
                   /\ \A e \in output_pass_uniform_buffer' :
                         HoldsOutputBlockOf(c, mem', e[2])
              ELSE /\ output_pass_uniform_buffer' = output_pass_uniform_buffer
                   /\ \A e \in output_pass_uniform_buffer :
                         mem'[e[2]] = mem[e[2]]]_vars

\* A non-degenerate draw with gamma 1 and subpixel_aa set finds the buffer
\* of an earlier draw and writes its own block into it.
C11_Witness ==
    \E c \in last :
        /\ NonDegenerate(c)
        /\ c.params.gamma = F(1)
        /\ c.params.subpixel_aa
        /\ c.pre.output_pass_uniform_buffer # None
        /\ c.pre.output_pass_uniform_buffer = output_pass_uniform_buffer
        /\ \A e \in output_pass_uniform_buffer : mem[e[2]][2] = F(1)

\* C14 (as claimed): the triangle-coverage pipeline is built with clockwise
\* and the curve-coverage pipeline with counter-clockwise front-face
\* winding, so the two first-pass pipelines have opposite winding.
C14_OppositeWinding ==
    /\ pipelines.render_triangles.primitive.front_face = "Cw"
    /\ pipelines.render_beziers.primitive.front_face = "Ccw"
    /\ pipelines.render_triangles.primitive.front_face
          # pipelines.render_beziers.primitive.front_face

\* The scale field (words 4 and 5) of block i of a first-pass uniform buffer.
ScaleOfBlock(buffer, i) == <<mem[buffer][64 * i + 4], mem[buffer][64 * i + 5]>>

\* C12: after a non-degenerate draw every one of the six first-pass uniform
\* blocks holds the scale (2 / width * px_per_em, 2 / height * px_per_em),
\* computed in f32 in that order from the output_size of this call; for
\* output_size (200, 100) and px_per_em 50 it is exactly (0.5, 1.0).
C12_ScaleIsNdcPerEm ==
    \A c \in last :
        NonDegenerate(c) =>
            LET width == c.params.output_size[1]
                height == c.params.output_size[2]
                px_per_em == c.params.px_per_em
            IN  /\ first_pass_uniform_buffer # None
                /\ \A e \in first_pass_uniform_buffer : \A i \in 0..5 :
                      /\ ScaleOfBlock(e[2], i) =
                            <<FMul(FDiv(F(2), F(width)), px_per_em),
                              FMul(FDiv(F(2), F(height)), px_per_em)>>
                      /\ (width = 200 /\ height = 100 /\ px_per_em = F(50)) =>
                            ScaleOfBlock(e[2], i) = <<FDiv(F(1), F(2)), F(1)>>

\* A draw of 200 x 100 pixels at 50 px per em, into the uniform buffer that
\* an earlier draw of another size has filled.
C12_Witness ==
    \E c \in last :
        /\ NonDegenerate(c)
        /\ c.params.output_size = <<200, 100>>
        /\ c.params.px_per_em = F(50)
        /\ c.pre.acquire_size = Some(<<3, 7, 1>>)
        /\ c.pre.first_pass_uniform_buffer # None
        /\ \E e \in first_pass_uniform_buffer :
              ScaleOfBlock(e[2], 5) = <<FDiv(F(1), F(2)), F(1)>>

\* The positions in a call's log of the API calls with the given name and
\* label.
Labelled(c, name, label) ==
    {i \in Ops(c, name) : c.log[i].label = label}

\* C13: a non-degenerate draw encodes into one command encoder the whole
\* first render pass and then the output pass, finishes the encoder once and
\* makes exactly one queue submission, of that one command buffer, as its
\* last API call; every coverage draw lies inside the first pass, which ends
\* before the output pass begins.  A degenerate draw submits nothing.
C13_OneSubmissionPassesInOrder ==
    \A c \in last :
        IF NonDegenerate(c)
        THEN /\ Ops(c, "submit") = {Len(c.log)}
             /\ c.log[Len(c.log)].command_buffers = 1
             /\ Ops(c, "finish") = {Len(c.log) - 1}
             /\ Cardinality(Ops(c, "create_command_encoder")) = 1
             /\ Cardinality(Ops(c, "begin_render_pass")) = 2
             /\ Cardinality(Ops(c, "end_render_pass")) = 2
             /\ \E b1 \in Labelled(c, "begin_render_pass", "teqxt_main_render_pass"),
                   e1 \in Labelled(c, "end_render_pass", "teqxt_main_render_pass"),
                   b2 \in Labelled(c, "begin_render_pass", "teqxt_postprocess_render_pass"),
                   e2 \in Labelled(c, "end_render_pass", "teqxt_postprocess_render_pass") :
                   /\ \A k \in Ops(c, "create_command_encoder") : k < b1
                   /\ b1 < e1 /\ e1 < b2 /\ b2 < e2 /\ e2 < Len(c.log) - 1
                   /\ \A k \in Ops(c, "draw") :
                         IF c.log[k].vertices = <<0, 3>>
                         THEN b1 < k /\ k < e1
                         ELSE b2 < k /\ k < e2
                   /\ \E k \in Ops(c, "draw") : b1 < k /\ k < e1
        ELSE Ops(c, "submit") = {}

\* A non-degenerate draw that follows an earlier frame and ends with its
\* submission.
C13_Witness ==
    \E c \in last :
        /\ NonDegenerate(c)
        /\ c.pre.first_pass_texture # None
        /\ Cardinality(Ops(c, "draw")) = 13
        /\ c.log[Len(c.log)].op = "submit"

\* The draw commands of a log from position k on, in order, each with its
\* position and the pipeline, bind group and dynamic offsets in force at it
\* (a render pass begins with none set).
RECURSIVE DrawsFrom(_, _, _, _, _)
DrawsFrom(log, k, pipeline, bind_group, offsets) ==
    IF k > Len(log) THEN <<>>
    ELSE IF log[k].op = "begin_render_pass"
    THEN DrawsFrom(log, k + 1, "none", "none", <<"none">>)
    ELSE IF log[k].op = "set_pipeline"
    THEN DrawsFrom(log, k + 1, log[k].pipeline, bind_group, offsets)
    ELSE IF log[k].op = "set_bind_group"
    THEN DrawsFrom(log, k + 1, pipeline, log[k].bind_group, log[k].offsets)
    ELSE IF log[k].op = "draw"
    THEN <<[at |-> k, pipeline |-> pipeline, bind_group |-> bind_group,
            offsets |-> offsets, vertices |-> log[k].vertices,
            instances |-> log[k].instances]>>
         \o DrawsFrom(log, k + 1, pipeline, bind_group, offsets)
    ELSE DrawsFrom(log, k + 1, pipeline, bind_group, offsets)

IsCoverageDraw(d) == d.pipeline \in {"render_triangles", "render_beziers"}

\* The draw commands of a call's first render pass, in order.
CoverageDraws(c) == SelectSeq(DrawsFrom(c.log, 1, "none", "none", <<"none">>), IsCoverageDraw)

\* C15 (as claimed): the first pass goes sample by sample: for each sample
\* i in 0..6 a triangle-coverage draw with block i bound is immediately
\* followed by a curve-coverage draw with block i bound, before any draw for
\* sample i+1.
C15_SampleBySample ==
    \A c \in last :
        NonDegenerate(c) =>
            \A cov \in {CoverageDraws(c)} :
                /\ Len(cov) = 12
                /\ \A i \in 0..5 :
                      /\ cov[2 * i + 1].pipeline = "render_triangles"
                      /\ cov[2 * i + 1].offsets = <<256 * i>>
                      /\ cov[2 * i + 2].pipeline = "render_beziers"
                      /\ cov[2 * i + 2].offsets = <<256 * i>>

\* C15 (amended): the first pass goes pipeline by pipeline: the
\* triangle-coverage pipeline is set once and, for each sample i in 0..6 in
\* order, block i is bound and one draw issued right after; then the
\* curve-coverage pipeline is set once and the same six bind-and-draw pairs
\* follow, so all six triangle draws precede all six curve draws.
C15_PipelineByPipeline ==
    \A c \in last :
        NonDegenerate(c) =>
            \A cov \in {CoverageDraws(c)} :
                /\ Len(cov) = 12
                /\ Cardinality({k \in Ops(c, "set_pipeline") :
                                  c.log[k].pipeline = "render_triangles"}) = 1
                /\ Cardinality({k \in Ops(c, "set_pipeline") :
                                  c.log[k].pipeline = "render_beziers"}) = 1
                /\ \A i \in 0..5 :
                      /\ cov[i + 1].pipeline = "render_triangles"
                      /\ cov[i + 7].pipeline = "render_beziers"
                      /\ \A n \in {i + 1, i + 7} :
                            /\ c.log[cov[n].at - 1].op = "set_bind_group"
                            /\ cov[n].offsets = <<256 * i>>

\* The second draw command of a first pass is the triangle draw of sample 1,
\* and the seventh is the curve draw of sample 0.
C15_Witness ==
    \E c \in last :
        /\ NonDegenerate(c)
        /\ \E cov \in {CoverageDraws(c)} :
              /\ Len(cov) = 12
              /\ cov[2].pipeline = "render_triangles"
              /\ cov[2].offsets = <<256>>
              /\ cov[7].pipeline = "render_beziers"
              /\ cov[7].offsets = <<0>>

\* C16: the first render pass of a non-degenerate draw issues exactly 12
\* draw commands, each of vertices 0..3 and instances 0..instance_count
\* (every curve of every glyph); each of the six offsets i * WGPU_STRIDE is
\* in force for exactly two of them, one with the triangle-coverage and one
\* with the curve-coverage pipeline, and the bind group they use is the
\* first-pass uniform buffer's, one block wide.
C16_TwelveCoverageDraws ==
    \A c \in last :
        NonDegenerate(c) =>
            \A cov \in {CoverageDraws(c)} :
                /\ Len(cov) = 12
                /\ \A n \in 1..12 :
                      /\ cov[n].vertices = <<0, 3>>
                      /\ cov[n].instances = <<0, TotalCurves(c.params.glyphs)>>
                      /\ \E e \in first_pass_uniform_buffer :
                            /\ cov[n].bind_group.buffer = e[2]
                            /\ cov[n].bind_group.offset = 0
                            /\ cov[n].bind_group.size = 32
                /\ \A i \in 0..5 :
                      LET at == {n \in 1..12 :
                                    cov[n].offsets = <<i * WGPU_STRIDE("FirstPassUniform")>>}
                      IN  /\ Cardinality(at) = 2
                          /\ {cov[n].pipeline : n \in at} =
                                {"render_triangles", "render_beziers"}

\* A first pass over two curves in two glyphs: the draws of sample 5 are
\* bound at offset 1280.
C16_Witness ==
    \E c \in last :
        /\ NonDegenerate(c)
        /\ Len(c.params.glyphs) = 2
        /\ TotalCurves(c.params.glyphs) = 2
        /\ \E cov \in {CoverageDraws(c)} :
              /\ Cardinality({n \in 1..Len(cov) : cov[n].offsets = <<1280>>}) = 2
              /\ \A n \in 1..Len(cov) : cov[n].instances = <<0, 2>>

IsOutputDraw(d) == d.pipeline = "render_output"

\* The draw commands of a call's output pass, in order.
OutputDraws(c) == SelectSeq(DrawsFrom(c.log, 1, "none", "none", <<"none">>), IsOutputDraw)

\* C17: the output pass of a non-degenerate draw clears the output texture
\* (the one the call returns), sets the resolve pipeline, binds the
\* output-pass uniform buffer and a view of the first-pass texture that this
\* call acquired and rendered into (the object now in the first-pass cache,
\* never the object the cache held before a replacement), and issues exactly
\* one draw, of 4 vertices and 1 instance.
C17_OutputPassResolves ==
    \A c \in last :
        NonDegenerate(c) =>
            \E b1 \in Labelled(c, "begin_render_pass", "teqxt_main_render_pass"),
               b2 \in Labelled(c, "begin_render_pass", "teqxt_postprocess_render_pass"),
               e2 \in Labelled(c, "end_render_pass", "teqxt_postprocess_render_pass") :
                /\ c.log[b2].load = "Clear(TRANSPARENT)"
                /\ c.log[b2].view = c.ret
                /\ \A e \in output_pass_texture : c.log[b2].view = [texture |-> e[2]]
                /\ Cardinality({k \in Ops(c, "draw") : b2 < k /\ k < e2}) = 1
                /\ pipelines.render_output.primitive.topology = "TriangleStrip"
                /\ \A out \in {OutputDraws(c)} :
                      /\ Len(out) = 1
                      /\ b2 < out[1].at /\ out[1].at < e2
                      /\ out[1].vertices = <<0, 4>>
                      /\ out[1].instances = <<0, 1>>
                      /\ \E e \in output_pass_uniform_buffer :
                            out[1].bind_group.buffer = e[2]
                      /\ \E e \in first_pass_texture :
                            out[1].bind_group.texture_view = [texture |-> e[2]]
                      /\ out[1].bind_group.texture_view = c.log[b1].view
                      /\ \A e \in c.pre.first_pass_texture :
                            c.pre.first_pass_texture # first_pass_texture
                                => out[1].bind_group.texture_view.texture # e[2]

\* A draw of a new output size replaces the first-pass texture of an
\* earlier draw, and its output pass samples the new one.
C17_Witness ==
    \E c \in last :
        /\ NonDegenerate(c)
        /\ c.pre.first_pass_texture # None
        /\ c.pre.first_pass_texture # first_pass_texture
        /\ Len(OutputDraws(c)) = 1
        /\ \E k \in Ops(c, "create_bind_group"), e \in first_pass_texture :
              /\ c.log[k].bind_group.label = "teqxt_postprocess_render_pass_bind_group"
              /\ c.log[k].bind_group.texture_view.texture = e[2]

\* A draw command as the device blends it into its target.
Blended(d) ==
    [pipeline |-> d.pipeline, bind_group |-> d.bind_group, offsets |-> d.offsets,
     vertices |-> d.vertices, instances |-> d.instances]

\* C18: a non-degenerate draw begins its first pass by clearing the
\* first-pass texture to transparent, before any coverage draw; once the
\* call is done that texture holds the coverage of this call's 12 draws and
\* nothing else, also when the texture object is the one an earlier draw of
\* the same output_size has rendered into.
C18_CoverageStartsFromClear ==
    \A c \in last :
        NonDegenerate(c) =>
            \A cov \in {CoverageDraws(c)} :
                /\ \E b1 \in Labelled(c, "begin_render_pass", "teqxt_main_render_pass") :
                      /\ c.log[b1].load = "Clear(TRANSPARENT)"
                      /\ \A e \in first_pass_texture : c.log[b1].view = [texture |-> e[2]]
                      /\ \A n \in 1..Len(cov) : b1 < cov[n].at
                /\ first_pass_texture # None
                /\ \A e \in first_pass_texture :
                      /\ Len(tex[e[2]]) = 12
                      /\ tex[e[2]] = [n \in 1..Len(cov) |-> Blended(cov[n])]
                      /\ \A n \in 1..12 :
                            tex[e[2]][n].instances = <<0, TotalCurves(c.params.glyphs)>>

\* A draw of one curve renders into the first-pass texture that still holds
\* the 12 coverage draws of an earlier call.
C18_Witness ==
    \E c \in last :
        /\ NonDegenerate(c)
        /\ TotalCurves(c.params.glyphs) = 1
        /\ c.pre.first_pass_texture = first_pass_texture
        /\ c.pre.coverage = {12}
        /\ \E e \in first_pass_texture : Len(tex[e[2]]) = 12

\* The buffer holds the given records of type T, record i at byte offset
\* i * stride, and no word that was ever written lies outside them.
HoldsRecords(buffer, T, stride, data) ==
    /\ DOMAIN mem[buffer] =
          UNION {((stride \div 4) * i) .. ((stride \div 4) * i + Len(Words(T)) - 1) :
                    i \in 0..(Len(data) - 1)}
    /\ \A i \in 0..(Len(data) - 1) : \A w \in 1..Len(Words(T)) :
          mem[buffer][(stride \div 4) * i + w - 1] = bytes_of(T, data[i + 1])[w]

\* C19: every call of with_data writes all its records, also into a buffer
\* object that the cache reused because the length is the cached one: after
\* a non-degenerate draw each of the three buffers holds, at byte offset
\* i * WGPU_STRIDE, record i of this call, for every i below the number of
\* records, and nothing written by an earlier call is left at those offsets
\* or anywhere else in the buffer.
C19_WithDataRewritesAll ==
    \A c \in last :
        NonDegenerate(c) =>
            /\ bezier_instance_buffer # None
            /\ first_pass_uniform_buffer # None
            /\ output_pass_uniform_buffer # None
            /\ \A e \in bezier_instance_buffer :
                  HoldsRecords(e[2], "BezierCurveInstance", 32, bezier_data_of(c.params))
            /\ \A e \in first_pass_uniform_buffer :
                  HoldsRecords(e[2], "FirstPassUniform", 256,
                      first_pass_uniform_data_of(c.params,
                          ndc_per_em_of(ndc_per_px_of(extent_of(c.params.output_size)),
                                        c.params.px_per_em)))
            /\ \A e \in output_pass_uniform_buffer :
                  HoldsRecords(e[2], "OutputPassUniform", 16,
                               <<output_pass_uniform_data_of(c.params)>>)

\* A draw of a new output size reuses the three buffers that the previous
\* draw, of another size and as many curves, has filled: the scale in every
\* first-pass block is rewritten.
C19_Witness ==
    \E c \in last :
        /\ NonDegenerate(c)
        /\ c.pre.coverage = {12}
        /\ c.pre.acquire_size # Some(extent_of(c.params.output_size))
        /\ c.pre.bezier_instance_buffer = bezier_instance_buffer
        /\ c.pre.first_pass_uniform_buffer = first_pass_uniform_buffer
        /\ c.pre.output_pass_uniform_buffer = output_pass_uniform_buffer
        /\ Len(c.params.glyphs) = 2
        /\ \E e \in first_pass_uniform_buffer :
              ScaleOfBlock(e[2], 5) =
                  ndc_per_em_of(ndc_per_px_of(extent_of(c.params.output_size)),
                                c.params.px_per_em)

\* The contents that the general path of with_data, one write per record at
\* WGPU_STRIDE * i, leaves in the buffer whose contents were old.
GeneralPath(old, T, data) ==
    write_each([gpu |-> <<>>, mem |-> (1 :> old), tex |-> <<>>, log |-> <<>>],
               1, T, data, 0).mem[1]

\* The contents of a buffer of the cache slot before a call; a buffer that
\* the call creates has none.
ContentsBefore(slot, buffer) ==
    IF \E e \in slot : e[2] = buffer THEN mem[buffer] ELSE <<>>

\* with_data took its fast path for the buffer: its only write is the whole
\* slice at offset 0.
FastPathTaken(c, buffer, T, data) ==
    \E k \in Ops(c, "write_buffer") :
        /\ WritesTo(c, buffer) = {k}
        /\ c.log[k].offset = 0
        /\ c.log[k].size = Len(data) * size_of(T)

\* C20: for the curve-instance buffer and the first-pass uniform buffer,
\* with_data takes the fast path exactly when the record type's WGPU_STRIDE
\* equals its in-memory size, and whenever it wrote a buffer by one
\* contiguous write, the buffer holds what writing each record i on its own
\* at offset i * WGPU_STRIDE would have left in it, starting from the same
\* contents.
C20_FastPathAgreesWithGeneral ==
    [][\A c \in last' :
          (last = None /\ NonDegenerate(c)) =>
              \A b \in {<<bezier_instance_buffer, bezier_instance_buffer',
                          "BezierCurveInstance", bezier_data_of(c.params)>>,
                        <<first_pass_uniform_buffer, first_pass_uniform_buffer',
                          "FirstPassUniform",
                          first_pass_uniform_data_of(c.params,
                              ndc_per_em_of(ndc_per_px_of(extent_of(c.params.output_size)),
                                            c.params.px_per_em))>>} :
                  \A e \in b[2] :
                      /\ (WGPU_STRIDE(b[3]) = size_of(b[3]))
                            <=> FastPathTaken(c, e[2], b[3], b[4])
                      /\ FastPathTaken(c, e[2], b[3], b[4]) =>
                            mem'[e[2]] = GeneralPath(ContentsBefore(b[1], e[2]), b[3], b[4])]_vars

\* Two curve records went into the curve-instance buffer of an earlier call
\* by a single write of 64 bytes.
C20_Witness ==
    \E c \in last :
        /\ NonDegenerate(c)
        /\ TotalCurves(c.params.glyphs) = 2
        /\ c.pre.bezier_instance_buffer = bezier_instance_buffer
        /\ \E e \in bezier_instance_buffer, k \in Ops(c, "write_buffer") :
              /\ WritesTo(c, e[2]) = {k}
              /\ c.log[k].offset = 0
              /\ c.log[k].size = 64

\* The objects the device created under the given label during a call.
Created(c, label) ==
    {id \in (c.pre.objects + 1)..Len(gpu) : gpu[id].label = label}

\* The cache slot was left alone, or refilled with a new object under key.
Refilled(c, label, before, after, key) ==
    IF Cached_key(before) = {key}
    THEN Created(c, label) = {} /\ after = before
    ELSE \E id \in Created(c, label) :
            /\ Created(c, label) = {id}
            /\ id > c.pre.objects
            /\ after = Some(<<key, id>>)

C22_PipelinesCreatedOnce ==
    /\ pipelines = Pipelines_new
    /\ DOMAIN pipelines = {"render_triangles", "render_beziers", "render_output"}
    /\ Cardinality({pipelines[n].label : n \in DOMAIN pipelines}) = 3
    /\ \A i \in 1..Len(gpu) : gpu[i].kind \in {"texture", "buffer"}
    /\ \A c \in last :
          /\ Ops(c, "create_render_pipeline") = {}
          /\ \A k \in Ops(c, "set_pipeline") : c.log[k].pipeline \in DOMAIN pipelines

\* A draw that replaced both textures and the curve-instance buffer of an
\* earlier draw and set each of the three pipelines.
C22_Witness ==
    \E c \in last :
        /\ NonDegenerate(c)
        /\ c.pre.coverage = {12}
        /\ first_pass_texture # c.pre.first_pass_texture
        /\ bezier_instance_buffer # c.pre.bezier_instance_buffer
        /\ {c.log[k].pipeline : k \in Ops(c, "set_pipeline")} = DOMAIN pipelines
        /\ pipelines = Pipelines_new

\* The fixed sample table as the documentation gives it: sample i sits at
\* (i / 6, y_i / 6) and writes the blue, green or red channel and alpha.
SampleOffset(i) ==
    <<FDiv(F(i), F(6)), FDiv(F(<<4, 1, 5, 2, 3, 0>>[i + 1]), F(6))>>

SampleMask(i) ==
    IF i < 2 THEN <<F(0), F(0), F(1), F(1)>>
    ELSE IF i < 4 THEN <<F(0), F(1), F(0), F(1)>>
    ELSE <<F(1), F(0), F(0), F(1)>>

\* Block i of a first-pass uniform buffer is the block of sample i for the
\* parameters of c.
HoldsSampleBlock(c, buffer, i) ==
    /\ <<mem[buffer][64 * i], mem[buffer][64 * i + 1],
         mem[buffer][64 * i + 2], mem[buffer][64 * i + 3]>> = SampleMask(i)
    /\ ScaleOfBlock(buffer, i) =
          <<FMul(FDiv(F(2), F(c.params.output_size[1])), c.params.px_per_em),
            FMul(FDiv(F(2), F(c.params.output_size[2])), c.params.px_per_em)>>
    /\ mem[buffer][64 * i + 6] =
          FAdd(c.params.translation[1], FDiv(SampleOffset(i)[1], c.params.px_per_em))
    /\ mem[buffer][64 * i + 7] =
          FAdd(c.params.translation[2], FDiv(SampleOffset(i)[2], c.params.px_per_em))

\* C23: after a non-degenerate draw, for every i in 0..6 the first-pass
\* uniform block at byte offset i * 256 has the channel mask of SAMPLES[i],
\* scale = ndc_per_em and translation = params.translation +
\* SAMPLES[i].offset / px_per_em, component by component in f32; every
\* coverage draw bound at dynamic offset i * 256 reads that buffer, so it
\* reads the block of sample i.  With translation (1, -1/4) and 50 px per
\* em, block 1 has translation (8416570 * 2^-23, -16553520 * 2^-26).
C23_BlockIIsSampleI ==
    \A c \in last :
        NonDegenerate(c) =>
            /\ first_pass_uniform_buffer # None
            /\ \A e \in first_pass_uniform_buffer :
                  /\ \A i \in 0..5 : HoldsSampleBlock(c, e[2], i)
                  /\ \A cov \in {CoverageDraws(c)} :
                        \A n \in 1..Len(cov) :
                            /\ cov[n].bind_group.buffer = e[2]
                            /\ cov[n].offsets \in {<<256 * i>> : i \in 0..5}
                  /\ (c.params.translation = <<F(1), FDiv(F(-1), F(4))>>
                        /\ c.params.px_per_em = F(50)) =>
                        <<mem[e[2]][64 + 6], mem[e[2]][64 + 7]>> =
                            <<<<8416570, -23>>, <<-16553520, -26>>>>

\* A draw translated by (1, -1/4) at 50 px per em rewrites the blocks that
\* an earlier draw had left in the buffer: block 0 now has translation
\* (1, -1/4 + (4/6) / 50) and block 5 has (.., -1/4).
C23_Witness ==
    \E c \in last :
        /\ NonDegenerate(c)
        /\ c.params.translation = <<F(1), FDiv(F(-1), F(4))>>
        /\ c.params.px_per_em = F(50)
        /\ c.pre.first_pass_uniform_buffer = first_pass_uniform_buffer
        /\ \E e \in first_pass_uniform_buffer :
              /\ mem[e[2]][6] = F(1)
              /\ mem[e[2]][7] = FAdd(FDiv(F(-1), F(4)), FDiv(FDiv(F(4), F(6)), F(50)))
              /\ mem[e[2]][64 * 5 + 7] = FDiv(F(-1), F(4))

\* The number of curves in the glyphs before glyph j.
CurvesBefore(glyphs, j) == TotalCurves(SubSeq(glyphs, 1, j - 1))

\* Record r of a curve-instance buffer, as its eight words.
CurveRecord(buffer, r) == [w \in 1..8 |-> mem[buffer][8 * r + w - 1]]

\* C24: after a non-degenerate draw the curve-instance buffer holds the
\* glyphs' curves flattened in order: curve k of glyph j is the record at
\* index (curves of the glyphs before j) + k - 1, and that record is the
\* glyph's offset followed by the curve's start, control and end point as
\* p0, p1, p2.  The buffer holds TotalCurves records and nothing else, so no
\* record is dropped, repeated or out of place.
C24_CurvesFlattenedInOrder ==
    \A c \in last :
        NonDegenerate(c) =>
            /\ bezier_instance_buffer # None
            /\ \A e \in bezier_instance_buffer :
                  /\ DOMAIN mem[e[2]] = 0..(8 * TotalCurves(c.params.glyphs) - 1)
                  /\ \A j \in 1..Len(c.params.glyphs) :
                        \A k \in 1..Len(c.params.glyphs[j].curves) :
                            CurveRecord(e[2], CurvesBefore(c.params.glyphs, j) + k - 1) =
                                <<c.params.glyphs[j].offset[1],
                                  c.params.glyphs[j].offset[2],
                                  c.params.glyphs[j].curves[k][1][1],
                                  c.params.glyphs[j].curves[k][1][2],
                                  c.params.glyphs[j].curves[k][2][1],
                                  c.params.glyphs[j].curves[k][2][2],
                                  c.params.glyphs[j].curves[k][3][1],
                                  c.params.glyphs[j].curves[k][3][2]>>

\* Two curves of one glyph went into the buffer of an earlier draw of two
\* curves: record 1 is now the second curve of that glyph.
C24_Witness ==
    \E c \in last :
        /\ NonDegenerate(c)
        /\ c.pre.bezier_instance_buffer = bezier_instance_buffer
        /\ Len(c.params.glyphs) = 1
        /\ Len(c.params.glyphs[1].curves) = 2
        /\ \E e \in bezier_instance_buffer :
              /\ CurveRecord(e[2], 0)[3] = F(11)
              /\ CurveRecord(e[2], 1) =
                    <<F(1), F(-1), F(12), F(0), F(12), F(1), F(12), F(2)>>

\* The get call that is running, or the one that ended last, met a
\* populated cache holding another key.
Mismatch(g) == g.before # None /\ Cached_key(g.before) # {g.key}

\* C25 (as claimed): get constructs, then swaps: at no point of a get call
\* on a populated cache is the cache empty, neither while the factory runs
\* nor after the factory failed.
C25_NeverEmptyDuringGet ==
    /\ \A g \in get_call : g.before # None => cached # None
    /\ (/\ get_call = None
        /\ calls # <<>>
        /\ calls[Len(calls)].op = "get_unwound"
        /\ calls[Len(calls)].before # None) => cached # None

\* C25 (amended): on a key mismatch get releases, then constructs: take_if
\* empties the cache and drops its reference to the old object (which lives
\* on only through the handles still held) before the factory runs, so the
\* cache is empty while the factory runs and stays empty when the factory
\* fails; whatever the cache holds from take_if on has the requested key,
\* and when get returns the cache is populated with that key.
C25_ReleasesThenConstructs ==
    /\ \A g \in get_call :
          /\ cached = None => (g.before = None \/ Mismatch(g))
          /\ cached # None => Cached_key(cached) = {g.key}
          /\ Mismatch(g) =>
                \A e \in g.before :
                    /\ cached # g.before
                    /\ arcs.strong[e[2]] =
                          Cardinality({h \in 1..MaxHolders : handles[h] = e[2]})
                    /\ (arcs.strong[e[2]] = 0) <=> (e[2] \in arcs.destroyed)
          /\ (g.before # None /\ ~Mismatch(g)) => cached = g.before
    /\ (get_call = None /\ calls # <<>>) =>
          /\ calls[Len(calls)].op = "get_unwound" => cached = None
          /\ calls[Len(calls)].op = "get" =>
                Cached_key(cached) = {calls[Len(calls)].key}

\* The factory runs for a new key: the cache, populated when the call
\* began, is empty, and the old object is alive in a caller's handle.
C25_Witness ==
    \E g \in get_call :
        /\ Mismatch(g)
        /\ cached = None
        /\ \E e \in g.before :
              /\ arcs.strong[e[2]] = 1
              /\ e[2] \notin arcs.destroyed
              /\ \E h \in 1..MaxHolders : handles[h] = e[2]

\* C26: between draw calls the first-pass and the output-pass texture cache
\* are both empty or both populated under the same extent, the extent of
\* the latest output_size that had no zero dimension, and each holds a
\* texture created with that extent; the first-pass texture that an output
\* pass samples has the size of the output texture the pass writes.
C26_TextureCachesAgree ==
    /\ Cached_key(first_pass_texture) = Cached_key(output_pass_texture)
    /\ Cached_key(first_pass_texture) = acquire_size
    /\ \A e \in first_pass_texture \cup output_pass_texture :
          /\ gpu[e[2]].kind = "texture"
          /\ gpu[e[2]].size = e[1]
    /\ \A c \in last :
          /\ ~ZeroSized(c) =>
                Cached_key(output_pass_texture) = {extent_of(c.params.output_size)}
          /\ \A k \in Ops(c, "create_bind_group") :
                c.log[k].bind_group.label = "teqxt_postprocess_render_pass_bind_group" =>
                    /\ c.ret.texture # c.log[k].bind_group.texture_view.texture
                    /\ gpu[c.log[k].bind_group.texture_view.texture].size =
                          gpu[c.ret.texture].size

\* A draw without curves, of a size other than the cached one, has replaced
\* both textures before returning the dummy view.
C26_Witness ==
    \E c \in last :
        /\ ~ZeroSized(c)
        /\ TotalCurves(c.params.glyphs) = 0
        /\ c.pre.first_pass_texture # None
        /\ first_pass_texture # c.pre.first_pass_texture
        /\ output_pass_texture # c.pre.output_pass_texture
        /\ Cached_key(first_pass_texture) = {extent_of(c.params.output_size)}

\* C27: no draw call creates a zero-sized resource or issues a draw of zero
\* instances: every texture the device ever created has width, height and
\* depth of at least 1, every buffer was created for at least one record
\* (its size is at least one WGPU_STRIDE of its record type), and every draw
\* command of a first pass covers at least one instance.
C27_NothingZeroSized ==
    /\ \A i \in 1..Len(gpu) :
          IF gpu[i].kind = "texture"
          THEN gpu[i].size[1] >= 1 /\ gpu[i].size[2] >= 1 /\ gpu[i].size[3] >= 1
          ELSE gpu[i].size >=
                  (CASE gpu[i].label = "bezier_instance_buffer" -> 32
                     [] gpu[i].label = "first_pass_uniform_buffer" -> 256
                     [] gpu[i].label = "output_pass_uniform_buffer" -> 16)
    /\ \A c \in last :
          /\ \A k \in Ops(c, "create_texture") :
                c.log[k].size[1] >= 1 /\ c.log[k].size[2] >= 1
          /\ \A k \in Ops(c, "create_buffer") : c.log[k].size >= 16
          /\ \A k \in Ops(c, "draw") :
                c.log[k].instances[2] - c.log[k].instances[1] >= 1
          /\ (ZeroSized(c) \/ TotalCurves(c.params.glyphs) = 0) =>
                Ops(c, "create_buffer") \cup Ops(c, "draw") = {}
          /\ ZeroSized(c) => Ops(c, "create_texture") = {}

\* A draw of width 2 and height 0 with a curve to draw, arriving when the
\* textures and buffers of an earlier draw exist: it created nothing.
C27_Witness ==
    \E c \in last :
        /\ c.params.output_size = <<2, 0>>
        /\ TotalCurves(c.params.glyphs) = 1
        /\ c.pre.coverage = {12}
        /\ Len(gpu) = c.pre.objects
        /\ Len(gpu) >= 6

\* C28: every buffer access of a draw call stays inside the buffer: each
\* write_buffer of with_data ends at or before the size the buffer was
\* created with (WGPU_STRIDE * len), for all three record types; each
\* first-pass uniform binding, WGPU_SIZE bytes at dynamic offset
\* i * WGPU_STRIDE, ends at or before WGPU_STRIDE * 6; and the instances a
\* first-pass draw fetches end at or before the end of the vertex buffer.
C28_AccessesStayInBounds ==
    \A c \in last :
        /\ \A k \in Ops(c, "write_buffer") :
              /\ gpu[c.log[k].buffer].kind = "buffer"
              /\ c.log[k].offset >= 0
              /\ c.log[k].offset + c.log[k].size <= gpu[c.log[k].buffer].size
        /\ \A k \in Ops(c, "set_bind_group") :
              \A i \in 1..Len(c.log[k].offsets) :
                  /\ c.log[k].bind_group.size = WGPU_SIZE("FirstPassUniform")
                  /\ gpu[c.log[k].bind_group.buffer].size =
                        WGPU_STRIDE("FirstPassUniform") * 6
                  /\ c.log[k].bind_group.offset + c.log[k].offsets[i]
                        + c.log[k].bind_group.size
                        <= gpu[c.log[k].bind_group.buffer].size
        /\ \A v \in Ops(c, "set_vertex_buffer"), k \in Ops(c, "draw") :
              c.log[k].vertices = <<0, 3>> =>
                  c.log[k].instances[2] * WGPU_STRIDE("BezierCurveInstance")
                      <= gpu[c.log[v].buffer].size
        /\ NonDegenerate(c) =>
              /\ \A e \in bezier_instance_buffer :
                    gpu[e[2]].size = 32 * TotalCurves(c.params.glyphs)
              /\ \A e \in first_pass_uniform_buffer : gpu[e[2]].size = 1536
              /\ \A e \in output_pass_uniform_buffer : gpu[e[2]].size = 16

\* A draw of two curves: the 64 bytes of curve data end at the end of the
\* 64-byte buffer, the last uniform record is written at 1280..1312 and
\* bound there, and the output block takes 12 of 16 bytes.
C28_Witness ==
    \E c \in last :
        /\ NonDegenerate(c)
        /\ TotalCurves(c.params.glyphs) = 2
        /\ \E k \in Ops(c, "write_buffer") :
              /\ c.log[k].offset = 0 /\ c.log[k].size = 64
              /\ gpu[c.log[k].buffer].size = 64
        /\ \E k \in Ops(c, "write_buffer") :
              c.log[k].offset = 1280 /\ c.log[k].size = 32
        /\ \E k \in Ops(c, "write_buffer") :
              c.log[k].size = 12 /\ gpu[c.log[k].buffer].size = 16
        /\ \E k \in Ops(c, "set_bind_group") : c.log[k].offsets = <<1280>>

\* C29: a degenerate draw (a zero dimension, or no curve) writes to no
\* buffer, creates no buffer and submits no command buffer: the three
\* buffer caches keep their objects, the contents of every buffer are what
\* they were before the call, and so is what every texture that existed
\* before the call holds, the cached ones among them.
C29_DegenerateDrawLeavesContents ==
    [][\A c \in last' :
          (last = None /\ ~NonDegenerate(c)) =>
              /\ Ops(c, "write_buffer") = {}
              /\ Ops(c, "create_buffer") = {}
              /\ Ops(c, "submit") = {}
              /\ Ops(c, "draw") = {}
              /\ mem' = mem
              /\ bezier_instance_buffer' = bezier_instance_buffer
              /\ first_pass_uniform_buffer' = first_pass_uniform_buffer
              /\ output_pass_uniform_buffer' = output_pass_uniform_buffer
              /\ \A t \in DOMAIN tex : tex'[t] = tex[t]]_vars

\* A draw without curves, of the cached size, after a non-degenerate draw:
\* the first-pass texture still holds the 12 coverage draws and the
\* curve-instance buffer its records.
C29_Witness ==
    \E c \in last :
        /\ ~ZeroSized(c)
        /\ TotalCurves(c.params.glyphs) = 0
        /\ c.pre.coverage = {12}
        /\ first_pass_texture = c.pre.first_pass_texture
        /\ \E e \in first_pass_texture : Len(tex[e[2]]) = 12
        /\ \E e \in bezier_instance_buffer : DOMAIN mem[e[2]] # {}
        /\ \E e \in output_pass_uniform_buffer : mem[e[2]][0] = 6

\* C30: the curve-instance buffer is acquired by exact match.  A
\* non-degenerate draw of n curves leaves the cache holding key n and a
\* buffer of exactly WGPU_STRIDE * n = 32 * n bytes; the buffer is the one
\* the cache held when that one was made for n curves too (the count of the
\* previous non-degenerate draw, degenerate draws leaving this cache
\* alone), and otherwise a buffer the call created, whether n is larger or
\* smaller than the cached count.
C30_CurveBufferExactMatch ==
    /\ \A e \in bezier_instance_buffer :
          /\ gpu[e[2]].label = "bezier_instance_buffer"
          /\ gpu[e[2]].size = WGPU_STRIDE("BezierCurveInstance") * e[1]
    /\ \A c \in last :
          IF NonDegenerate(c)
          THEN /\ Cached_key(bezier_instance_buffer) = {TotalCurves(c.params.glyphs)}
               /\ \A e \in bezier_instance_buffer :
                     /\ gpu[e[2]].size = 32 * TotalCurves(c.params.glyphs)
                     /\ IF Cached_key(c.pre.bezier_instance_buffer)
                              = {TotalCurves(c.params.glyphs)}
                        THEN /\ bezier_instance_buffer = c.pre.bezier_instance_buffer
                             /\ Labelled(c, "create_buffer", "bezier_instance_buffer") = {}
                        ELSE /\ e[2] > c.pre.objects
                             /\ \E k \in Ops(c, "create_buffer") :
                                   /\ Labelled(c, "create_buffer",
                                               "bezier_instance_buffer") = {k}
                                   /\ c.log[k].id = e[2]
                                   /\ c.log[k].size = 32 * TotalCurves(c.params.glyphs)
          ELSE bezier_instance_buffer = c.pre.bezier_instance_buffer

\* A draw of one curve after a draw of two: the 64-byte buffer is replaced
\* by a new one of 32 bytes.
C30_Witness ==
    \E c \in last :
        /\ NonDegenerate(c)
        /\ Cached_key(c.pre.bezier_instance_buffer) = {2}
        /\ TotalCurves(c.params.glyphs) = 1
        /\ \E e \in bezier_instance_buffer, old \in c.pre.bezier_instance_buffer :
              /\ e[2] # old[2]
              /\ gpu[old[2]].size = 64
              /\ gpu[e[2]].size = 32
====
